---------------------------- MODULE Spec2Model ----------------------------
(***************************************************************************)
(* Registry dependency resolution and temporal dependency closure of the   *)
(* julia-package-evolution scripts.                                        *)
(*                                                                         *)
(* Strings are modelled as sequences of one-character strings, so that     *)
(* splitting, digit extraction and version coercion are computed the way   *)
(* the Python code computes them.                                          *)
(***************************************************************************)
EXTENDS Integers, Sequences, FiniteSets, TLC

(***************************************************************************)
(* Bounds of the model.                                                    *)
(***************************************************************************)
MaxComp == 1

MaxVersions == 2

MaxEntries == 2

MaxNodes == 3

MaxEdges == 3

MaxSlices == 2

MaxSliceEdges == 2

MaxMonths == 3

MaxDirs == 2

MaxReads == 2

(***************************************************************************)
(* Character-level string helpers (Python str operations).                 *)
(***************************************************************************)
Digits == {"0", "1", "2", "3", "4", "5", "6", "7", "8", "9"}

Letters == {"a", "b"}

DigitVal(c) ==
  CASE c = "0" -> 0 [] c = "1" -> 1 [] c = "2" -> 2 [] c = "3" -> 3
    [] c = "4" -> 4 [] c = "5" -> 5 [] c = "6" -> 6 [] c = "7" -> 7
    [] c = "8" -> 8 [] c = "9" -> 9

DigitChar(d) ==
  CASE d = 0 -> "0" [] d = 1 -> "1" [] d = 2 -> "2" [] d = 3 -> "3"
    [] d = 4 -> "4" [] d = 5 -> "5" [] d = 6 -> "6" [] d = 7 -> "7"
    [] d = 8 -> "8" [] d = 9 -> "9"

\* c in s
Contains(s, c) == \E i \in 1..Len(s) : s[i] = c

\* s.find(c) + 1: position of the first occurrence of c in s, 0 when absent
FirstIndex(s, c) ==
  IF \E i \in 1..Len(s) : s[i] = c
    THEN CHOOSE i \in 1..Len(s) : s[i] = c /\ \A j \in 1..(i - 1) : s[j] # c
    ELSE 0

\* s.split(c)[0]
SplitHead(s, c) ==
  LET i == FirstIndex(s, c) IN IF i = 0 THEN s ELSE SubSeq(s, 1, i - 1)

\* s.split(c, 1), for s containing c
SplitOnce(s, c) ==
  LET i == FirstIndex(s, c)
  IN  << SubSeq(s, 1, i - 1), SubSeq(s, i + 1, Len(s)) >>

\* s.split(c)
RECURSIVE Split(_, _)
Split(s, c) ==
  LET i == FirstIndex(s, c)
  IN  IF i = 0 THEN << s >>
      ELSE << SubSeq(s, 1, i - 1) >> \o Split(SubSeq(s, i + 1, Len(s)), c)

\* int(s) for a string of digits
RECURSIVE ToInt(_)
ToInt(s) ==
  IF Len(s) = 0 THEN 0
  ELSE 10 * ToInt(SubSeq(s, 1, Len(s) - 1)) + DigitVal(s[Len(s)])

\* str(n) for a natural number
RECURSIVE NumStr(_)
NumStr(n) ==
  IF n < 10 THEN << DigitChar(n) >>
  ELSE NumStr(n \div 10) \o << DigitChar(n % 10) >>

\* ".".join(str(p) for p in parts)
RECURSIVE JoinDots(_)
JoinDots(parts) ==
  IF Len(parts) = 1 THEN NumStr(parts[1])
  ELSE JoinDots(SubSeq(parts, 1, Len(parts) - 1))
         \o << "." >> \o NumStr(parts[Len(parts)])

\* length of the longest prefix of s made of digits
DigitPrefixLen(s) ==
  CHOOSE k \in 0..Len(s) :
    /\ \A i \in 1..k : s[i] \in Digits
    /\ (k < Len(s) => s[k + 1] \notin Digits)

\* ''.join(c for c in part if c.isdigit())
OnlyDigits(s) == SelectSeq(s, LAMBDA c : c \in Digits)

\* lexicographic order on integer tuples (Python tuple comparison)
TupleLess(a, b) ==
  \/ \E i \in 1..Len(a) :
       /\ i <= Len(b)
       /\ a[i] < b[i]
       /\ \A j \in 1..(i - 1) : a[j] = b[j]
  \/ /\ Len(a) < Len(b)
     /\ \A j \in 1..Len(a) : a[j] = b[j]

TupleLeq(a, b) == a = b \/ TupleLess(a, b)

(***************************************************************************)
(* semantic_version.Version.coerce and SimpleSpec, as used by              *)
(* RegistryPackage (extract_dependencies.py lines 119, 140, 146, 151).     *)
(* A version is [ok, key, pre]: ok is FALSE when the call raises           *)
(* ValueError, key is (major, minor, patch), pre says whether a prerelease *)
(* part is present.  Build metadata does not take part in ordering or in   *)
(* range matching and is dropped.                                          *)
(***************************************************************************)
NoVersion == [ok |-> FALSE, key |-> << 0, 0, 0 >>, pre |-> FALSE]

\* every identifier of a dot-separated prerelease/build part is non-empty
IdentifiersOk(part) ==
  LET ids == Split(part, ".") IN \A i \in 1..Len(ids) : ids[i] # << >>

\* numeric prerelease identifiers carry no leading zero
NoLeadingZero(part) ==
  LET ids == Split(part, ".")
  IN  \A i \in 1..Len(ids) :
        (ids[i] # << >> /\ DigitPrefixLen(ids[i]) = Len(ids[i]) /\ Len(ids[i]) > 1)
          => ids[i][1] # "0"

\* build.replace('+', '.')
PlusToDot(s) == [i \in 1..Len(s) |-> IF s[i] = "+" THEN "." ELSE s[i]]

\* length of the digit run of a ".digits" group at the head of a, 0 when a
\* does not start with such a group
GroupLen(a) ==
  IF Len(a) >= 2 /\ a[1] = "." THEN DigitPrefixLen(Tail(a)) ELSE 0

\* the number in the group of length k at the head of a, 0 for no group
GroupVal(a, k) == IF k > 0 THEN ToInt(SubSeq(a, 2, k + 1)) ELSE 0

\* a without the group of length k at its head
AfterGroup(a, k) == IF k > 0 THEN SubSeq(a, k + 2, Len(a)) ELSE a

\* what follows the numeric components, without the "-" that introduces it
RestBody(rest) ==
  IF rest # << >> /\ rest[1] = "-" THEN Tail(rest) ELSE rest

Prerelease(rest) ==
  IF rest = << >> \/ rest[1] \in {"+", "."} THEN << >>
  ELSE SplitHead(RestBody(rest), "+")

Build(rest) ==
  IF rest = << >> THEN << >>
  ELSE IF rest[1] \in {"+", "."} THEN PlusToDot(Tail(rest))
  ELSE IF Contains(RestBody(rest), "+")
    THEN PlusToDot(SplitOnce(RestBody(rest), "+")[2])
  ELSE << >>

\* Version(...) on the coerced string: the identifiers are validated
CoerceChecked(key, prerelease, build) ==
  IF prerelease # << >>
       /\ ~(IdentifiersOk(prerelease) /\ NoLeadingZero(prerelease))
    THEN NoVersion
  ELSE IF build # << >> /\ ~IdentifiersOk(build) THEN NoVersion
  ELSE [ok |-> TRUE, key |-> key, pre |-> prerelease # << >>]

CoerceRest(key, rest) == CoerceChecked(key, Prerelease(rest), Build(rest))

\* the patch component, looked for after a minor component only
CoercePatch(major, minor, a2) ==
  LET k3 == GroupLen(a2)
  IN  CoerceRest(<< major, minor, GroupVal(a2, k3) >>, AfterGroup(a2, k3))

CoerceMinor(major, a1) ==
  LET k2 == GroupLen(a1)
  IN  IF k2 = 0 THEN CoerceRest(<< major, 0, 0 >>, a1)
      ELSE CoercePatch(major, GroupVal(a1, k2), AfterGroup(a1, k2))

\* Version.coerce(version_string)
Coerce(s) ==
  LET k1 == DigitPrefixLen(s)
  IN  IF k1 = 0 THEN NoVersion
      ELSE CoerceMinor(ToInt(SubSeq(s, 1, k1)), SubSeq(s, k1 + 1, Len(s)))

\* Version.__lt__ (precedence order; a prerelease sorts below its release)
VersionLess(v, w) ==
  \/ TupleLess(v.key, w.key)
  \/ v.key = w.key /\ v.pre /\ ~w.pre

VersionLeq(v, w) == ~VersionLess(w, v)

\* SimpleSpec NUMBER: 0 or a digit run without leading zero
IsNumber(part) ==
  /\ part # << >>
  /\ DigitPrefixLen(part) = Len(part)
  /\ (Len(part) > 1 => part[1] # "0")

\* SimpleSpec.Parser.NAIVE_SPEC on the operand of one block: one to three
\* dot-separated NUMBERs (the model's range tokens carry no prerelease or
\* build part); anything else raises ValueError
TokenOk(tok) ==
  LET parts == Split(tok, ".")
  IN  Len(parts) \in 1..3 /\ \A i \in 1..Len(parts) : IsNumber(parts[i])

TokenParts(tok) ==
  LET parts == Split(tok, ".") IN [i \in 1..Len(parts) |-> ToInt(parts[i])]

\* the target Version of a block: missing components are zero
Target(tok) ==
  LET p == TokenParts(tok)
  IN  [ok |-> TRUE,
       key |-> << p[1], IF Len(p) >= 2 THEN p[2] ELSE 0,
                        IF Len(p) >= 3 THEN p[3] ELSE 0 >>,
       pre |-> FALSE]

NextMajor(t) == [t EXCEPT !.key = << t.key[1] + 1, 0, 0 >>]

NextMinor(t) == [t EXCEPT !.key = << t.key[1], t.key[2] + 1, 0 >>]

\* Range(OP_LT, target).match(v): a prerelease of the target itself is out
RangeLt(v, t) ==
  IF v.pre /\ v.key = t.key /\ ~t.pre THEN FALSE ELSE VersionLess(v, t)

\* v in SimpleSpec(">=tok")
MatchGte(v, tok) == VersionLeq(Target(tok), v)

\* a closed upper bound at the zero-filled token, whatever its length
MatchLteClosed(v, tok) == VersionLeq(v, Target(tok))

\* v in SimpleSpec("<=tok"): a partial tok reads "<" its next major/minor
MatchLte(v, tok) ==
  LET n == Len(TokenParts(tok))
      t == Target(tok)
  IN  IF n = 1 THEN RangeLt(v, NextMajor(t))
      ELSE IF n = 2 THEN RangeLt(v, NextMinor(t))
      ELSE VersionLeq(v, t)

\* equality with the zero-filled token, whatever its length
MatchEqExact(v, tok) == v.key = Target(tok).key /\ ~v.pre

\* v in SimpleSpec("=tok"): a partial tok covers its whole major/minor line
MatchEq(v, tok) ==
  LET n == Len(TokenParts(tok))
      t == Target(tok)
  IN  IF n = 1 THEN VersionLeq(t, v) /\ RangeLt(v, NextMajor(t))
      ELSE IF n = 2 THEN VersionLeq(t, v) /\ RangeLt(v, NextMinor(t))
      ELSE v.key = t.key /\ ~v.pre

\* RegistryPackage._version_in_range(version, version_range)
VersionInRange(version, version_range) ==
  LET current_version == Coerce(version)
      start == SplitOnce(version_range, "-")[1]
      end == SplitOnce(version_range, "-")[2]
  IN  IF ~current_version.ok THEN version = version_range
      ELSE IF Contains(version_range, "-")
        THEN IF TokenOk(start) /\ TokenOk(end)
               THEN MatchGte(current_version, start) /\ MatchLte(current_version, end)
               ELSE version = version_range
      ELSE IF TokenOk(version_range)
        THEN MatchEq(current_version, version_range)
        ELSE version = version_range

(***************************************************************************)
(* Python dict and max().                                                  *)
(***************************************************************************)
EmptyDict == [k \in {} |-> "none"]

\* d.update(e): the entries of e overwrite those of d
DictUpdate(d, e) ==
  [k \in (DOMAIN d) \cup (DOMAIN e) |-> IF k \in DOMAIN e THEN e[k] ELSE d[k]]

\* list(d.keys()) contains s
HasKey(keys, s) == \E i \in 1..Len(keys) : keys[i] = s

\* every key of the version table coerces without raising
AllCoerce(keys) == \A i \in 1..Len(keys) : Coerce(keys[i]).ok

\* max(versions.keys(), key=lambda v: Version.coerce(v)): the running
\* maximum is replaced only by a strictly greater key, so the first of
\* several equal maxima is returned
RECURSIVE MaxByCoerce(_)
MaxByCoerce(keys) ==
  IF Len(keys) = 1 THEN keys[1]
  ELSE LET m == MaxByCoerce(SubSeq(keys, 1, Len(keys) - 1))
           v == keys[Len(keys)]
       IN  IF VersionLess(Coerce(m), Coerce(v)) THEN v ELSE m

(***************************************************************************)
(* MetadataPackage.extract_dependencies.version_tuple and the legacy       *)
(* latest-version selection.                                               *)
(***************************************************************************)
\* [int(digits of part) or 0 for part in clean_v.split('.')]
DigitParts(clean_v) ==
  LET parts == Split(clean_v, ".")
  IN  [i \in 1..Len(parts) |-> ToInt(OnlyDigits(parts[i]))]

\* while len(parts) < 3: parts.append(0)
PadToThree(parts) ==
  IF Len(parts) = 1 THEN parts \o << 0, 0 >>
  ELSE IF Len(parts) = 2 THEN parts \o << 0 >>
  ELSE parts

version_tuple(v) ==
  LET clean_v == SplitHead(SplitHead(v, "+"), "-")
  IN  IF OnlyDigits(clean_v) = << >> THEN << 0, 0, 0 >>
      ELSE PadToThree(DigitParts(clean_v))

\* max(versions.keys(), key=version_tuple)
RECURSIVE MaxByTuple(_)
MaxByTuple(keys) ==
  IF Len(keys) = 1 THEN keys[1]
  ELSE LET m == MaxByTuple(SubSeq(keys, 1, Len(keys) - 1))
           v == keys[Len(keys)]
       IN  IF TupleLess(version_tuple(m), version_tuple(v)) THEN v ELSE m

(***************************************************************************)
(* RegistryPackage.extract_dependencies (default mode) and                 *)
(* extract_dependencies_for_version (historical mode).  A dependency table *)
(* is the sequence of its entries in file order; an entry is               *)
(* [range, is_dict, deps].                                                 *)
(***************************************************************************)
\* the flattening loop keeping the first name seen for an id
RECURSIVE FlattenAllFirstWins(_)
FlattenAllFirstWins(data) ==
  IF Len(data) = 0 THEN EmptyDict
  ELSE LET acc == FlattenAllFirstWins(SubSeq(data, 1, Len(data) - 1))
           e == data[Len(data)]
       IN  IF e.is_dict THEN DictUpdate(e.deps, acc) ELSE acc

\* for version_range, deps in deps_data.items():
\*     if isinstance(deps, dict): all_deps.update(deps)
RECURSIVE FlattenAll(_)
FlattenAll(data) ==
  IF Len(data) = 0 THEN EmptyDict
  ELSE LET acc == FlattenAll(SubSeq(data, 1, Len(data) - 1))
           e == data[Len(data)]
       IN  IF e.is_dict THEN DictUpdate(acc, e.deps) ELSE acc

\* the same loop keeping the first name seen for an id
RECURSIVE MergeMatchingFirstWins(_, _)
MergeMatchingFirstWins(data, v) ==
  IF Len(data) = 0 THEN EmptyDict
  ELSE LET acc == MergeMatchingFirstWins(SubSeq(data, 1, Len(data) - 1), v)
           e == data[Len(data)]
       IN  IF e.is_dict /\ VersionInRange(v, e.range)
             THEN DictUpdate(e.deps, acc) ELSE acc

\* the same loop assigning the matching entry instead of merging it
RECURSIVE MergeMatchingReplace(_, _)
MergeMatchingReplace(data, v) ==
  IF Len(data) = 0 THEN EmptyDict
  ELSE LET acc == MergeMatchingReplace(SubSeq(data, 1, Len(data) - 1), v)
           e == data[Len(data)]
       IN  IF e.is_dict /\ VersionInRange(v, e.range) THEN e.deps ELSE acc

\* for version_range, deps in deps_data.items():
\*     if not isinstance(deps, dict): continue
\*     if self._version_in_range(v, version_range): current_deps.update(deps)
RECURSIVE MergeMatching(_, _)
MergeMatching(data, v) ==
  IF Len(data) = 0 THEN EmptyDict
  ELSE LET acc == MergeMatching(SubSeq(data, 1, Len(data) - 1), v)
           e == data[Len(data)]
       IN  IF e.is_dict /\ VersionInRange(v, e.range)
             THEN DictUpdate(acc, e.deps) ELSE acc

\* RegistryPackage.extract_versions(): {} when the file is missing or
\* does not parse
ExtractVersions(vfile, keys) == IF vfile = "ok" THEN keys ELSE << >>

\* a default mode that returns nothing without a usable version table
ExtractDependenciesNoFallback(dfile, data, vfile, keys) ==
  LET vs == ExtractVersions(vfile, keys)
  IN  IF dfile = "missing"
        THEN [deps |-> EmptyDict, latest |-> << >>, error |-> FALSE]
      ELSE IF dfile = "malformed"
        THEN [deps |-> EmptyDict, latest |-> << >>, error |-> TRUE]
      ELSE IF Len(vs) = 0
        THEN [deps |-> EmptyDict, latest |-> << >>, error |-> FALSE]
      ELSE IF ~AllCoerce(vs)
        THEN [deps |-> EmptyDict, latest |-> << >>, error |-> TRUE]
      ELSE [deps |-> MergeMatching(data, MaxByCoerce(vs)),
            latest |-> MaxByCoerce(vs), error |-> FALSE]

\* RegistryPackage.extract_dependencies(): [deps, latest, error]; error
\* says that the except clause swallowed an exception
ExtractDependencies(dfile, data, vfile, keys) ==
  LET vs == ExtractVersions(vfile, keys)
  IN  IF dfile = "missing"
        THEN [deps |-> EmptyDict, latest |-> << >>, error |-> FALSE]
      ELSE IF dfile = "malformed"
        THEN [deps |-> EmptyDict, latest |-> << >>, error |-> TRUE]
      ELSE IF Len(vs) = 0
        THEN [deps |-> FlattenAll(data), latest |-> << >>, error |-> FALSE]
      ELSE IF ~AllCoerce(vs)
        THEN [deps |-> EmptyDict, latest |-> << >>, error |-> TRUE]
      ELSE [deps |-> MergeMatching(data, MaxByCoerce(vs)),
            latest |-> MaxByCoerce(vs), error |-> FALSE]

\* RegistryPackage.extract_compatibility(): {} when the file is missing or
\* does not parse
ExtractCompatibility(cfile) == IF cfile = "ok" THEN "compat" ELSE "empty"

\* RegistryPackage.extract_all() without the metadata: the three tables of
\* a package, each read by its own extractor
ExtractTables(dfile, data, vfile, keys, cfile) ==
  [dependencies |-> ExtractDependencies(dfile, data, vfile, keys).deps,
   versions |-> ExtractVersions(vfile, keys),
   compatibility |-> ExtractCompatibility(cfile)]

\* a historical mode without the two pre-merges
BaseEntryNone(data, key) == EmptyDict

\* deps_data[key] when key is present and maps to a dict, else nothing
BaseEntry(data, key) ==
  IF \E i \in 1..Len(data) : data[i].range = key /\ data[i].is_dict
    THEN (CHOOSE e \in {data[i] : i \in 1..Len(data)} :
            e.range = key /\ e.is_dict).deps
    ELSE EmptyDict

\* the loop of extract_dependencies_for_version over current_deps: entries
\* keyed by the major version or by "1" are skipped, the others merged when
\* they match
RECURSIVE MergeOthers(_, _, _, _)
MergeOthers(current, data, target, major) ==
  IF Len(data) = 0 THEN current
  ELSE LET acc == MergeOthers(current, SubSeq(data, 1, Len(data) - 1), target, major)
           e == data[Len(data)]
       IN  IF e.range \in {major, << "1" >>} \/ ~e.is_dict THEN acc
           ELSE IF VersionInRange(target, e.range) THEN DictUpdate(acc, e.deps)
           ELSE acc

\* the historical mode without the pre-merge of the entry keyed "1"
ExtractDependenciesForVersionNoOne(dfile, data, vfile, keys, target) ==
  LET vs == ExtractVersions(vfile, keys)
      major_version == SplitHead(target, ".")
  IN  IF ~HasKey(vs, target) \/ dfile # "ok"
        THEN [found |-> FALSE, deps |-> EmptyDict]
      ELSE [found |-> TRUE,
            deps |-> MergeOthers(
                       DictUpdate(EmptyDict, BaseEntry(data, major_version)),
                       data, target, major_version)]

\* extract_dependencies_for_version(package_name, target_version) for an
\* existing package directory: [found, deps]; found is FALSE when the
\* function returns None
ExtractDependenciesForVersion(dfile, data, vfile, keys, target) ==
  LET vs == ExtractVersions(vfile, keys)
      major_version == SplitHead(target, ".")
  IN  IF ~HasKey(vs, target) \/ dfile # "ok"
        THEN [found |-> FALSE, deps |-> EmptyDict]
      ELSE [found |-> TRUE,
            deps |-> MergeOthers(
                       DictUpdate(DictUpdate(EmptyDict, BaseEntry(data, major_version)),
                                  BaseEntry(data, << "1" >>)),
                       data, target, major_version)]

(***************************************************************************)
(* MetadataPackage.extract_dependencies: the requires file of the latest   *)
(* version.  A requires file is the sequence of the first words of its     *)
(* non-comment lines.                                                      *)
(***************************************************************************)
\* f"metadata-{dep_name.lower()}"
MetadataUuid(dep_name) ==
  CASE dep_name = "B" -> "metadata-b"
    [] dep_name = "C" -> "metadata-c"
    [] dep_name = "julia" -> "metadata-julia"

\* for line in requires_content: ... deps[dep_uuid] = dep_name
RECURSIVE ParseRequires(_)
ParseRequires(names) ==
  IF Len(names) = 0 THEN EmptyDict
  ELSE LET acc == ParseRequires(SubSeq(names, 1, Len(names) - 1))
           dep_name == names[Len(names)]
       IN  IF dep_name = "julia" THEN acc
           ELSE DictUpdate(acc, [k \in {MetadataUuid(dep_name)} |-> dep_name])

\* MetadataPackage.extract_dependencies(): keys are the version
\* directories holding a sha1 file, reqs[i] the requires file of keys[i]
MetadataExtractDependencies(keys, reqs) ==
  IF Len(keys) = 0 THEN [deps |-> EmptyDict, latest |-> << >>]
  ELSE LET latest == MaxByTuple(keys)
           i == CHOOSE j \in 1..Len(keys) : keys[j] = latest
       IN  IF ~reqs[i].exists THEN [deps |-> EmptyDict, latest |-> latest]
           ELSE [deps |-> ParseRequires(reqs[i].names), latest |-> latest]

(***************************************************************************)
(* temporal_viz_python.py: a sparse matrix is its shape (m rows, n         *)
(* columns) and the set of its nonzero positions << row, col >>; rows and  *)
(* columns are numbered from 0.                                            *)
(***************************************************************************)
\* csr_matrix((m, n)): the matrix with no stored entry
ZeroMatrix(m, n) == [m |-> m, n |-> n, edges |-> {}]

\* _, cols = A[i].nonzero(): the columns of row i (defined for i < A.m)
RowNonzero(A, i) == {e[2] : e \in {d \in A.edges : d[1] = i}}

Least(S) == CHOOSE x \in S : \A y \in S : x <= y

\* the order in which nonzero() lists a row: ascending column index
RECURSIVE Ascending(_)
Ascending(S) ==
  IF S = {} THEN << >>
  ELSE LET x == Least(S) IN << x >> \o Ascending(S \ {x})

\* a seeding that also records the start node
SeedWithSelf(adj_matrix, package_idx) ==
  LET direct_deps == RowNonzero(adj_matrix, package_idx)
  IN  [deps |-> direct_deps \cup {package_idx},
       queue |-> Ascending(direct_deps)]

\* compute_recursive_dependencies, lines 84-92: deps and queue hold the
\* direct dependencies of package_idx
Seed(adj_matrix, package_idx) ==
  LET direct_deps == RowNonzero(adj_matrix, package_idx)
  IN  [deps |-> direct_deps, queue |-> Ascending(direct_deps)]

\* an iteration that follows only the first unvisited dependency of a row
BfsStepFirstOnly(adj_matrix, st) ==
  LET current == Head(st.queue)
      rest == Tail(st.queue)
  IN  IF current < adj_matrix.m
        THEN LET unvisited == RowNonzero(adj_matrix, current) \ st.deps
                 fresh == IF unvisited = {} THEN {} ELSE {Least(unvisited)}
             IN  [deps |-> st.deps \cup fresh,
                  queue |-> rest \o Ascending(fresh)]
        ELSE [deps |-> st.deps, queue |-> rest]

\* an iteration without the visited test of line 103
BfsStepNoVisitedTest(adj_matrix, st) ==
  LET current == Head(st.queue)
      rest == Tail(st.queue)
  IN  IF current < adj_matrix.m
        THEN LET current_deps == RowNonzero(adj_matrix, current)
             IN  [deps |-> st.deps \cup current_deps,
                  queue |-> rest \o Ascending(current_deps)]
        ELSE [deps |-> st.deps, queue |-> rest]

\* an iteration that discards a node without a row
BfsStepDropUnbounded(adj_matrix, st) ==
  LET current == Head(st.queue)
      rest == Tail(st.queue)
  IN  IF current < adj_matrix.m
        THEN LET fresh == RowNonzero(adj_matrix, current) \ st.deps
             IN  [deps |-> st.deps \cup fresh,
                  queue |-> rest \o Ascending(fresh)]
        ELSE [deps |-> st.deps \ {current}, queue |-> rest]

\* one iteration of the while loop, lines 98-105
BfsStep(adj_matrix, st) ==
  LET current == Head(st.queue)
      rest == Tail(st.queue)
  IN  IF current < adj_matrix.m
        THEN LET fresh == RowNonzero(adj_matrix, current) \ st.deps
             IN  [deps |-> st.deps \cup fresh,
                  queue |-> rest \o Ascending(fresh)]
        ELSE [deps |-> st.deps, queue |-> rest]

RECURSIVE BfsRun(_, _)
BfsRun(adj_matrix, st) ==
  IF st.queue = << >> THEN st.deps
  ELSE BfsRun(adj_matrix, BfsStep(adj_matrix, st))

\* compute_recursive_dependencies(adj_matrix, package_idx), run to its return
ComputeRecursiveDependencies(adj_matrix, package_idx) ==
  IF package_idx >= adj_matrix.m THEN {}
  ELSE BfsRun(adj_matrix, Seed(adj_matrix, package_idx))

\* extract_temporal_dependency_graphs, lines 155-178: the node set and the
\* restricted adjacency of one slice; A[i] raises IndexError for a node of
\* the set at or beyond the row bound
ExtractSlice(A, package_idx, exclude_indices, include_self) ==
  LET closure == ComputeRecursiveDependencies(A, package_idx)
      kept == closure \ exclude_indices
      deps_final == IF include_self THEN kept \cup {package_idx} ELSE kept
  IN  [error |-> \E i \in deps_final : i >= A.m,
       deps_final |-> deps_final,
       subgraph_A |-> [m |-> A.m, n |-> A.n,
                       edges |-> {e \in A.edges : e[1] \in deps_final
                                                  /\ e[2] \in deps_final}]]

\* an accumulation that keeps the node set of the latest slice only
UpdateReplace(all_deps_union, deps) == deps

\* all_deps_union.update(deps)
Update(all_deps_union, deps) == all_deps_union \cup deps

\* lines 189-191: the loop over temporal_deps_sets.values()
RECURSIVE UpdateAll(_, _)
UpdateAll(all_deps_union, deps_sets) ==
  IF deps_sets = << >> THEN all_deps_union
  ELSE UpdateAll(Update(all_deps_union, Head(deps_sets)), Tail(deps_sets))

\* lines 200-203: union_A = union_A.maximum(A_slice) over slices of the
\* shape of union_A
\* a combination that keeps the entries of the latest slice only
MaximumReplace(union_A, A_slice) == [union_A EXCEPT !.edges = A_slice.edges]

\* union_A.maximum(A_slice), for 0/1 matrices of one shape
Maximum(union_A, A_slice) ==
  [union_A EXCEPT !.edges = @ \cup A_slice.edges]

RECURSIVE MaximumAll(_, _)
MaximumAll(union_A, graphs) ==
  IF graphs = << >> THEN union_A
  ELSE MaximumAll(Maximum(union_A, Head(graphs)), Tail(graphs))

\* position of orig_idx in deps_list (orig_to_graph, numbered from 0)
OrigToGraph(deps_list, orig_idx) ==
  (CHOOSE i \in 1..Len(deps_list) : deps_list[i] = orig_idx) - 1

\* create_union_dependency_graph(temporal_graphs, temporal_deps_sets);
\* list(...)[0] raises IndexError when there is no slice, union_A[orig_i]
\* when a node of the union is at or beyond n
CreateUnionDependencyGraph(graphs, deps_sets) ==
  LET all_deps_union == UpdateAll({}, deps_sets)
      n == IF graphs = << >> THEN 0 ELSE graphs[1].m
      union_A == MaximumAll(ZeroMatrix(n, n), graphs)
      deps_list == Ascending(all_deps_union)
      m == Len(deps_list)
  IN  [error |-> graphs = << >> \/ \E i \in all_deps_union : i >= n,
       all_deps_union |-> all_deps_union,
       union_A |-> union_A,
       deps_list |-> deps_list,
       union_subgraph |->
         [m |-> m, n |-> m,
          edges |-> {<< OrigToGraph(deps_list, e[1]),
                        OrigToGraph(deps_list, e[2]) >> :
                       e \in {d \in union_A.edges :
                                d[1] \in all_deps_union
                                /\ d[2] \in all_deps_union}}]]

\* cluster_by_first_appearance_in_deps, lines 237-248: the periods are the
\* positions of the node sets, in date order
Appears(deps_sets, dep_idx) ==
  \E period \in 1..Len(deps_sets) : dep_idx \in deps_sets[period]

\* the period recorded when every later sighting is recorded over it
LastAppearance(deps_sets, dep_idx) ==
  CHOOSE period \in 1..Len(deps_sets) :
    /\ dep_idx \in deps_sets[period]
    /\ \A later \in (period + 1)..Len(deps_sets) : dep_idx \notin deps_sets[later]

\* first_appearance[dep_idx]
FirstAppearance(deps_sets, dep_idx) ==
  CHOOSE period \in 1..Len(deps_sets) :
    /\ dep_idx \in deps_sets[period]
    /\ \A earlier \in 1..(period - 1) : dep_idx \notin deps_sets[earlier]

\* the same lines without the increment of cluster_id
ClusterOfPeriodNoIncrement(st, first_seen_in_deps) ==
  IF first_seen_in_deps \in DOMAIN st.date_to_cluster
    THEN [st EXCEPT !.clusters =
                      Append(@, st.date_to_cluster[first_seen_in_deps])]
    ELSE [date_to_cluster |->
            [d \in (DOMAIN st.date_to_cluster) \cup {first_seen_in_deps} |->
               IF d = first_seen_in_deps THEN st.cluster_id
               ELSE st.date_to_cluster[d]],
          cluster_id |-> st.cluster_id,
          clusters |-> Append(st.clusters, st.cluster_id)]

\* lines 257-263, for a node first seen in the period first_seen_in_deps
ClusterOfPeriod(st, first_seen_in_deps) ==
  IF first_seen_in_deps \in DOMAIN st.date_to_cluster
    THEN [st EXCEPT !.clusters =
                      Append(@, st.date_to_cluster[first_seen_in_deps])]
    ELSE [date_to_cluster |->
            [d \in (DOMAIN st.date_to_cluster) \cup {first_seen_in_deps} |->
               IF d = first_seen_in_deps THEN st.cluster_id
               ELSE st.date_to_cluster[d]],
          cluster_id |-> st.cluster_id + 1,
          clusters |-> Append(st.clusters, st.cluster_id)]

\* lines 255-266: one iteration of the loop over deps_list
ClusterStep(st, orig_idx, deps_sets) ==
  IF Appears(deps_sets, orig_idx)
    THEN ClusterOfPeriod(st, FirstAppearance(deps_sets, orig_idx))
    ELSE [st EXCEPT !.clusters = Append(@, 0)]

RECURSIVE ClusterLoop(_, _, _)
ClusterLoop(st, deps_list, deps_sets) ==
  IF deps_list = << >> THEN st
  ELSE ClusterLoop(ClusterStep(st, Head(deps_list), deps_sets),
                   Tail(deps_list), deps_sets)

\* cluster_by_first_appearance_in_deps(deps_list, temporal_deps_sets)
ClusterByFirstAppearanceInDeps(deps_list, deps_sets) ==
  ClusterLoop([date_to_cluster |-> << >>, cluster_id |-> 0, clusters |-> << >>],
              deps_list, deps_sets)

(***************************************************************************)
(* State.                                                                  *)
(*   pc             position of the running script                         *)
(*   version, version_range, in_range                                      *)
(*                  arguments and result of _version_in_range              *)
(*   repo           "General" (registry) or "METADATA" (legacy)            *)
(*   deps_file, deps_data        Deps.toml: state of the file, its entries *)
(*   versions_file, versions     Versions.toml / versions directory: state *)
(*                  of the file, its keys in enumeration order             *)
(*   requires       legacy: the requires file of each version              *)
(*   target_version argument of extract_dependencies_for_version           *)
(*   latest_version, current_deps, outcome                                 *)
(*                  selected version, returned mapping, and how the call   *)
(*                  ended ("ok", "error" = exception swallowed, "none")    *)
(*   adj_matrix, package_idx, deps, queue                                  *)
(*                  arguments and locals of compute_recursive_dependencies *)
(*   matrices       the matrix files from start_date on, in date order     *)
(*   exclude_indices, include_self                                         *)
(*                  options of extract_temporal_dependency_graphs          *)
(*   temporal_graphs, temporal_deps_sets                                   *)
(*                  the two dictionaries it fills, in insertion order      *)
(*   all_deps_union, union_A, deps_list, union_subgraph                    *)
(*                  results of create_union_dependency_graph               *)
(*   clusters, date_to_cluster                                             *)
(*                  results of cluster_by_first_appearance_in_deps         *)
(*   driver         which batch driver runs: "registry"                    *)
(*                  (build_monthly_dependencies) or "metadata"             *)
(*   files          per month of the index, in sorted order, the state of  *)
(*                  its output document: "absent", "complete" or "partial" *)
(*   month_idx      position of the driver's loop                          *)
(*   completed, skipped, failed                                            *)
(*                  the months the driver has recorded as such             *)
(*   head, branches the reference the working tree is at, and the branch   *)
(*                  names of the repository                                *)
(*   exit_code      exit status the running build will end with            *)
(*   prior_ref, invoked, seen_existing, exited_nonzero                     *)
(*                  history: reference before the running build started,   *)
(*                  months whose build was invoked, months whose document  *)
(*                  existed when reached, months whose build exited        *)
(*                  non-zero                                               *)
(*   repo_path, package_dirs, walked, snapshot                                        *)
(*                  extract_registry_snapshot: the package directories,    *)
(*                  how many are processed, the snapshot being filled      *)
(***************************************************************************)
VARIABLES pc, version, version_range, in_range,
          repo, deps_file, deps_data, versions_file, versions, requires,
          target_version, latest_version, current_deps, outcome,
          adj_matrix, package_idx, deps, queue,
          matrices, exclude_indices, include_self,
          temporal_graphs, temporal_deps_sets,
          all_deps_union, union_A, deps_list, union_subgraph,
          clusters, date_to_cluster,
          driver, files, month_idx, completed, skipped, failed,
          head, branches, exit_code,
          prior_ref, invoked, seen_existing, exited_nonzero,
          repo_path, package_dirs, walked, snapshot,
          builds, serialised

matchVars == << version, version_range, in_range >>

packageVars == << repo, deps_file, deps_data, versions_file, versions, requires >>

resolveVars == << target_version, latest_version, current_deps, outcome >>

closureVars == << adj_matrix, deps, queue >>

sliceVars == << matrices, exclude_indices, include_self >>

unionVars == << all_deps_union, union_A, deps_list, union_subgraph >>

clusterVars == << clusters, date_to_cluster >>

temporalVars ==
  << sliceVars, temporal_graphs, temporal_deps_sets, unionVars, clusterVars >>

driverVars == << driver, month_idx, completed, skipped, failed >>

treeVars == << head, branches >>

historyVars == << prior_ref, invoked, seen_existing, exited_nonzero >>

batchVars == << driverVars, files, treeVars, exit_code, historyVars >>

snapshotVars == << repo_path, package_dirs, walked, snapshot >>

concurrentVars == << builds, serialised >>

buildVars == << batchVars, snapshotVars, concurrentVars >>

vars == << pc, matchVars, packageVars, resolveVars,
           package_idx, closureVars, temporalVars, buildVars >>

IdleMatch == version = << >> /\ version_range = << >> /\ in_range = FALSE

IdlePackage ==
  /\ repo = "none"
  /\ deps_file = "missing" /\ deps_data = << >>
  /\ versions_file = "missing" /\ versions = << >>
  /\ requires = << >>

IdleResolve ==
  /\ target_version = << >> /\ latest_version = << >>
  /\ current_deps = EmptyDict /\ outcome = "none"

IdleClosure == adj_matrix = ZeroMatrix(0, 0) /\ deps = {} /\ queue = << >>

IdleUnion ==
  /\ all_deps_union = {} /\ union_A = ZeroMatrix(0, 0)
  /\ deps_list = << >> /\ union_subgraph = ZeroMatrix(0, 0)

IdleCluster == clusters = << >> /\ date_to_cluster = << >>

IdleTemporal ==
  /\ matrices = << >> /\ exclude_indices = {} /\ include_self = FALSE
  /\ temporal_graphs = << >> /\ temporal_deps_sets = << >>
  /\ IdleUnion /\ IdleCluster

IdleGraph == package_idx = 0 /\ IdleClosure /\ IdleTemporal

IdleBatch ==
  /\ driver = "none" /\ files = << >> /\ month_idx = 0
  /\ completed = {} /\ skipped = {} /\ failed = {}
  /\ head = "none" /\ branches = {} /\ exit_code = 0
  /\ prior_ref = "none" /\ invoked = {}
  /\ seen_existing = {} /\ exited_nonzero = {}

EmptySnapshot ==
  [packages |-> << >>, dependencies |-> << >>,
   format_stats |-> [early |-> 0, late |-> 0, unknown |-> 0]]

IdleSnapshot ==
  /\ repo_path = << >> /\ package_dirs = << >>
  /\ walked = 0 /\ snapshot = EmptySnapshot

IdleConcurrent == builds = << >> /\ serialised = TRUE

IdleBuild == IdleBatch /\ IdleSnapshot /\ IdleConcurrent

(***************************************************************************)
(* Inputs of the version-matching runs: every range bound of one to three  *)
(* components in 0..MaxComp, every version of one to three components in   *)
(* 0..MaxComp+1, the strings of test_version_range_logic, and malformed    *)
(* strings.                                                                *)
(***************************************************************************)
Tokens ==
  {JoinDots(p) : p \in UNION {[1..k -> 0..MaxComp] : k \in 1..3}}

VersionTokens ==
  {JoinDots(p) : p \in UNION {[1..k -> 0..(MaxComp + 1)] : k \in 1..3}}

Hyphenated(a, b) == a \o << "-" >> \o b

\* test_dependency_extraction.py, test_version_range_logic: test_cases
TestCases ==
  { [v |-> << "1", ".", "0", ".", "4" >>,
     r |-> << "1", "-", "1", ".", "0", ".", "2" >>, expected |-> FALSE],
    [v |-> << "1", ".", "0", ".", "4" >>,
     r |-> << "1", ".", "0", ".", "3", "-", "1" >>, expected |-> TRUE],
    [v |-> << "1", ".", "0", ".", "2" >>,
     r |-> << "1", "-", "1", ".", "0", ".", "2" >>, expected |-> TRUE],
    [v |-> << "0", ".", "2", "2", ".", "6" >>,
     r |-> << "0" >>, expected |-> TRUE],
    [v |-> << "0", ".", "2", "2", ".", "6" >>,
     r |-> << "0", ".", "2", "2", "-", "0" >>, expected |-> TRUE],
    [v |-> << "0", ".", "2", "2", ".", "6" >>,
     r |-> << "0", ".", "1", "3", "-", "0" >>, expected |-> TRUE],
    [v |-> << "0", ".", "2", "2", ".", "6" >>,
     r |-> << "0", "-", "0", ".", "1", "2" >>, expected |-> FALSE],
    [v |-> << "2", ".", "4", ".", "0" >>,
     r |-> << "0", "-", "2" >>, expected |-> TRUE],
    [v |-> << "2", ".", "4", ".", "0" >>,
     r |-> << "0", ".", "5", "-", "2" >>, expected |-> TRUE],
    [v |-> << "2", ".", "4", ".", "0" >>,
     r |-> << "0", "-", "2", ".", "2" >>, expected |-> FALSE],
    [v |-> << "3", ".", "0", ".", "0" >>,
     r |-> << "0", "-", "2" >>, expected |-> FALSE] }

Malformed == { << "a", "b" >>, << "0", "1" >>, << "1", ".", "a" >> }

MatchVersions == VersionTokens \cup {t.v : t \in TestCases} \cup Malformed

MatchRanges ==
  Tokens \cup {Hyphenated(a, b) : a, b \in Tokens}
         \cup {t.r : t \in TestCases} \cup Malformed
         \cup {Hyphenated(a, b) : a \in Malformed, b \in {<< "1" >>}}

InitMatch ==
  /\ pc = "match"
  /\ version \in MatchVersions
  /\ version_range \in MatchRanges
  /\ in_range = FALSE
  /\ IdlePackage /\ IdleResolve /\ IdleGraph /\ IdleBuild

\* handler._version_in_range(version, range_str)
CallVersionInRange ==
  /\ pc = "match"
  /\ in_range' = VersionInRange(version, version_range)
  /\ pc' = "matched"
  /\ UNCHANGED << buildVars, version, version_range, packageVars, resolveVars,
                  package_idx, closureVars, temporalVars >>

NextMatch == CallVersionInRange

SpecMatch == InitMatch /\ [][NextMatch]_vars

(***************************************************************************)
(* Inputs of the resolution runs: one package directory of the General     *)
(* registry (Versions.toml, Deps.toml) or of METADATA.jl (versions         *)
(* directory with a requires file per version).                            *)
(***************************************************************************)
V100 == << "1", ".", "0", ".", "0" >>

V150 == << "1", ".", "5", ".", "0" >>

V10 == << "1", ".", "0" >>

V200 == << "2", ".", "0", ".", "0" >>

Vab == << "a", "b" >>

V100p1 == << "1", ".", "0", ".", "0", "+", "1" >>

VersionPool == { V100, V150, V10, V200, Vab, V100p1 }

R1 == << "1" >>

R2 == << "2" >>

R12to2 == << "1", ".", "2", "-", "2" >>

R0to1 == << "0", "-", "1" >>

RangePool == { R1, R2, R12to2, R0to1 }

u1B == [k \in {"u1"} |-> "B"]

u2C == [k \in {"u2"} |-> "C"]

u1C == [k \in {"u1"} |-> "C"]

EntryPool ==
  {[range |-> r, is_dict |-> TRUE, deps |-> d] : r \in RangePool, d \in {u1B, u2C, u1C}}
    \cup {[range |-> r, is_dict |-> FALSE, deps |-> EmptyDict] : r \in RangePool}

\* sequences of at most n elements of S
SeqsUpTo(S, n) == UNION {[1..k -> S] : k \in 0..n}

Injective(f) == \A i, j \in DOMAIN f : f[i] = f[j] => i = j

\* the keys of a TOML table are distinct
Tables ==
  {t \in SeqsUpTo(EntryPool, MaxEntries) :
     \A i, j \in 1..Len(t) : t[i].range = t[j].range => i = j}

VersionLists == {l \in SeqsUpTo(VersionPool, MaxVersions) : Injective(l)}

FileStates == {"ok", "missing", "malformed"}

RequiresPool ==
  { [exists |-> FALSE, names |-> << >>],
    [exists |-> TRUE, names |-> << "B" >>],
    [exists |-> TRUE, names |-> << "julia", "C" >>] }

ExampleTable ==
  << [range |-> R1, is_dict |-> TRUE, deps |-> u1B],
     [range |-> R12to2, is_dict |-> TRUE, deps |-> u2C] >>

\* a table in which every entry holds the same id under another name
ClashTable ==
  << [range |-> R0to1, is_dict |-> TRUE, deps |-> u1C],
     [range |-> R1, is_dict |-> TRUE, deps |-> u1B],
     [range |-> R2, is_dict |-> FALSE, deps |-> EmptyDict] >>

SomeTables == { ExampleTable, ClashTable }

SomeVersionLists == { << >>, << V100, V150 >>, << V200, V10 >> }

\* every dependency table against a few version tables, every version
\* table against a few dependency tables, and every state of the two files
InitGeneral ==
  /\ repo = "General"
  /\ requires = << >>
  /\ \/ /\ deps_file = "ok" /\ versions_file = "ok"
        /\ deps_data \in Tables
        /\ versions \in SomeVersionLists
     \/ /\ deps_file = "ok" /\ versions_file = "ok"
        /\ deps_data \in SomeTables
        /\ versions \in VersionLists
     \/ /\ deps_file \in FileStates
        /\ versions_file \in FileStates
        /\ deps_data = IF deps_file = "ok" THEN ExampleTable ELSE << >>
        /\ versions = IF versions_file = "ok" THEN << V100, V150 >> ELSE << >>

InitMetadata ==
  /\ repo = "METADATA"
  /\ deps_file = "missing" /\ deps_data = << >>
  /\ versions_file = "ok"
  /\ versions \in VersionLists
  /\ requires \in [1..Len(versions) -> RequiresPool]

InitResolve ==
  /\ pc = "package"
  /\ IdleMatch
  /\ (InitGeneral \/ InitMetadata)
  /\ IdleResolve /\ IdleGraph /\ IdleBuild

\* handler.extract_dependencies() on a registry package
RunExtractDependencies ==
  /\ pc = "package" /\ repo = "General"
  /\ \E r \in {ExtractDependencies(deps_file, deps_data, versions_file, versions)} :
       /\ current_deps' = r.deps
       /\ latest_version' = r.latest
       /\ outcome' = IF r.error THEN "error" ELSE "ok"
  /\ pc' = "default"
  /\ UNCHANGED << buildVars, matchVars, packageVars, target_version,
                  package_idx, closureVars, temporalVars >>

\* the versions asked for: those of the package and one that may be absent
TargetPool == {versions[i] : i \in 1..Len(versions)} \cup {V200}

\* extract_dependencies_for_version(package_name, target_version)
RunExtractDependenciesForVersion ==
  /\ pc = "package" /\ repo = "General"
  /\ \E target \in TargetPool :
       \E r \in {ExtractDependenciesForVersion(deps_file, deps_data,
                                               versions_file, versions, target)} :
         /\ target_version' = target
         /\ current_deps' = r.deps
         /\ outcome' = IF r.found THEN "ok" ELSE "none"
  /\ pc' = "historical"
  /\ UNCHANGED << buildVars, matchVars, packageVars, latest_version,
                  package_idx, closureVars, temporalVars >>

\* MetadataPackage.extract_dependencies() on a METADATA.jl package
RunMetadataExtractDependencies ==
  /\ pc = "package" /\ repo = "METADATA"
  /\ \E r \in {MetadataExtractDependencies(versions, requires)} :
       /\ current_deps' = r.deps
       /\ latest_version' = r.latest
  /\ outcome' = "ok"
  /\ pc' = "legacy"
  /\ UNCHANGED << buildVars, matchVars, packageVars, target_version,
                  package_idx, closureVars, temporalVars >>

NextResolve ==
  \/ RunExtractDependencies
  \/ RunExtractDependenciesForVersion
  \/ RunMetadataExtractDependencies

SpecResolve == InitResolve /\ [][NextResolve]_vars

(***************************************************************************)
(* Inputs of the closure runs: every matrix of MaxNodes columns and one to *)
(* MaxNodes rows with at most MaxEdges nonzero entries (self-loops         *)
(* included), and every start index from 0 to MaxNodes, which is beyond    *)
(* every row bound.                                                        *)
(***************************************************************************)
\* the subsets of S of at most k elements
RECURSIVE UpTo(_, _)
UpTo(S, k) ==
  IF k = 0 THEN {{}}
  ELSE LET smaller == UpTo(S, k - 1)
       IN  smaller \cup {p \cup {x} : p \in smaller, x \in S}

ClosureMatrices ==
  UNION {{[m |-> m, n |-> MaxNodes, edges |-> E] :
            E \in UpTo((0..(m - 1)) \X (0..(MaxNodes - 1)), MaxEdges)} :
         m \in 1..MaxNodes}

InitClosure ==
  /\ pc = "closure"
  /\ adj_matrix \in ClosureMatrices
  /\ package_idx \in 0..MaxNodes
  /\ deps = {} /\ queue = << >>
  /\ IdleMatch /\ IdlePackage /\ IdleResolve /\ IdleTemporal /\ IdleBuild

\* compute_recursive_dependencies, lines 81-92: the bound test and the seeding
ClosureEnter ==
  /\ pc = "closure"
  /\ IF package_idx >= adj_matrix.m
       THEN /\ pc' = "returned"
            /\ UNCHANGED << deps, queue >>
       ELSE /\ \E st \in {Seed(adj_matrix, package_idx)} :
                 deps' = st.deps /\ queue' = st.queue
            /\ pc' = "bfs"
  /\ UNCHANGED << buildVars, matchVars, packageVars, resolveVars,
                  package_idx, adj_matrix, temporalVars >>

\* lines 97-105: one iteration of the while loop
ClosureLoop ==
  /\ pc = "bfs" /\ queue # << >>
  /\ \E st \in {BfsStep(adj_matrix, [deps |-> deps, queue |-> queue])} :
       deps' = st.deps /\ queue' = st.queue
  /\ UNCHANGED << buildVars, pc, matchVars, packageVars, resolveVars,
                  package_idx, adj_matrix, temporalVars >>

\* lines 97 and 108: the queue is empty, deps is returned
ClosureReturn ==
  /\ pc = "bfs" /\ queue = << >>
  /\ pc' = "returned"
  /\ UNCHANGED << buildVars, matchVars, packageVars, resolveVars,
                  package_idx, closureVars, temporalVars >>

NextClosure == ClosureEnter \/ ClosureLoop \/ ClosureReturn

SpecClosure == InitClosure /\ [][NextClosure]_vars

\* the function is one sequential call: once entered, the interpreter keeps
\* executing its statements until it returns
SpecClosureFair == SpecClosure /\ WF_vars(NextClosure)

(***************************************************************************)
(* Inputs of the temporal runs: up to MaxSlices monthly matrices over      *)
(* MaxNodes packages (square and of one shape, the n x n shape that        *)
(* create_union_dependency_graph gives union_A; no package depending on    *)
(* itself) holding at most MaxSliceEdges edges between them; a target that *)
(* is the first or second package of the index, or one the matrices have   *)
(* no row for; one package excluded or none; include_self set or not.      *)
(***************************************************************************)
SliceEdges == {e \in (0..(MaxNodes - 1)) \X (0..(MaxNodes - 1)) : e[1] # e[2]}

SliceSeqs ==
  UNION {{[k \in 1..len |->
             [m |-> MaxNodes, n |-> MaxNodes,
              edges |-> {p[2] : p \in {q \in P : q[1] = k}}]] :
            P \in UpTo((1..len) \X SliceEdges, MaxSliceEdges)} :
         len \in 0..MaxSlices}

TargetIndices == {0, 1, MaxNodes}

InitTemporal ==
  /\ pc = "extract"
  /\ matrices \in SliceSeqs
  /\ package_idx \in TargetIndices
  /\ exclude_indices \in {{}, {1}}
  /\ include_self \in BOOLEAN
  /\ temporal_graphs = << >> /\ temporal_deps_sets = << >>
  /\ IdleUnion /\ IdleCluster
  /\ IdleMatch /\ IdlePackage /\ IdleResolve /\ IdleClosure /\ IdleBuild

\* extract_temporal_dependency_graphs, line 142: relevant_files[0] raises
\* IndexError when no matrix file is left
NoMatrixFile ==
  /\ pc = "extract" /\ matrices = << >>
  /\ pc' = "failed"
  /\ UNCHANGED << buildVars, matchVars, packageVars, resolveVars,
                  package_idx, closureVars, temporalVars >>

\* lines 147-180: the loop body for the next matrix file
ProcessSlice ==
  /\ pc = "extract" /\ Len(temporal_graphs) < Len(matrices)
  /\ \E r \in {ExtractSlice(matrices[Len(temporal_graphs) + 1], package_idx,
                            exclude_indices, include_self)} :
       IF r.error
         THEN /\ pc' = "failed"
              /\ UNCHANGED << temporal_graphs, temporal_deps_sets >>
         ELSE /\ temporal_graphs' = Append(temporal_graphs, r.subgraph_A)
              /\ temporal_deps_sets' = Append(temporal_deps_sets, r.deps_final)
              /\ UNCHANGED pc
  /\ UNCHANGED << buildVars, matchVars, packageVars, resolveVars,
                  package_idx, closureVars, sliceVars, unionVars,
                  clusterVars >>

\* line 182 and create_union_dependency_graph(temporal_graphs,
\* temporal_deps_sets), as analyze_package_ecosystem calls it
CreateUnion ==
  /\ pc = "extract" /\ matrices # << >>
  /\ Len(temporal_graphs) = Len(matrices)
  /\ \E r \in {CreateUnionDependencyGraph(temporal_graphs, temporal_deps_sets)} :
       IF r.error
         THEN pc' = "failed" /\ UNCHANGED unionVars
         ELSE /\ all_deps_union' = r.all_deps_union
              /\ union_A' = r.union_A
              /\ deps_list' = r.deps_list
              /\ union_subgraph' = r.union_subgraph
              /\ pc' = "union"
  /\ UNCHANGED << buildVars, matchVars, packageVars, resolveVars,
                  package_idx, closureVars, sliceVars,
                  temporal_graphs, temporal_deps_sets, clusterVars >>

\* cluster_by_first_appearance_in_deps(deps_list, temporal_deps_sets), as
\* analyze_package_ecosystem calls it on the union
Cluster ==
  /\ pc = "union"
  /\ \E r \in {ClusterByFirstAppearanceInDeps(deps_list, temporal_deps_sets)} :
       /\ clusters' = r.clusters
       /\ date_to_cluster' = r.date_to_cluster
  /\ pc' = "clustered"
  /\ UNCHANGED << buildVars, matchVars, packageVars, resolveVars,
                  package_idx, closureVars, sliceVars,
                  temporal_graphs, temporal_deps_sets, unionVars >>

NextTemporal == NoMatrixFile \/ ProcessSlice \/ CreateUnion \/ Cluster

SpecTemporal == InitTemporal /\ [][NextTemporal]_vars

(***************************************************************************)
(* The batch drivers (build_monthly_dependencies.py,                       *)
(* build_metadata_monthly_dependencies.py) and the snapshot build they run *)
(* for each month (main of extract_dependencies.py and of                  *)
(* extract_metadata_dependencies.py).  The index holds one to MaxMonths    *)
(* months, numbered in sorted order; each output document is absent,       *)
(* complete, or partial (left by an earlier run); the repository has a     *)
(* branch "main", a branch "master", or both, and the working tree starts  *)
(* at one of them.  What git, the directory walk and the file system do to *)
(* a build is chosen freely at each step.                                  *)
(***************************************************************************)
\* monthly_commits[month]["hash"]
CommitHash(month) == << "h1", "h2", "h3", "h4", "h5", "h6" >>[month]

\* a test that takes only a complete document for an existing one
OutputComplete(month) == files[month] = "complete"

\* os.path.exists(output_file)
OutputExists(month) == files[month] # "absent"

\* a record of the failures that drops the months recorded before
RecordFailedOnlyLast(month) == {month}

\* a failure that is printed but not recorded
RecordFailedDropped(month) == failed

\* failed.append(month)
RecordFailed(month) == failed \cup {month}

InitBatch ==
  /\ pc = "batch"
  /\ driver \in {"registry", "metadata"}
  /\ files \in UNION {[1..n -> {"absent", "complete", "partial"}] :
                        n \in 1..MaxMonths}
  /\ month_idx = 1
  /\ completed = {} /\ skipped = {} /\ failed = {}
  /\ branches \in {{"main"}, {"master"}, {"main", "master"}}
  /\ head \in branches
  /\ exit_code = 0
  /\ prior_ref = head
  /\ invoked = {} /\ seen_existing = {} /\ exited_nonzero = {}
  /\ IdleMatch /\ IdlePackage /\ IdleResolve /\ IdleGraph /\ IdleSnapshot
  /\ IdleConcurrent

\* what the driver's loop notes on reaching a month, whatever it does next
Reached ==
  seen_existing' = IF files[month_idx] # "absent"
                     THEN seen_existing \cup {month_idx} ELSE seen_existing

\* build_monthly_dependencies.main lines 77-80,
\* build_metadata_monthly_dependencies.main lines 99-102
BatchSkip ==
  /\ pc = "batch" /\ month_idx <= Len(files)
  /\ OutputExists(month_idx)
  /\ skipped' = skipped \cup {month_idx}
  /\ month_idx' = month_idx + 1
  /\ Reached
  /\ UNCHANGED << pc, matchVars, packageVars, resolveVars, package_idx,
                  closureVars, temporalVars, snapshotVars, concurrentVars,
                  driver, completed, failed, files, treeVars, exit_code,
                  prior_ref, invoked, exited_nonzero >>

\* the driver starts the extraction script for the month (lines 83 and
\* 25-36; metadata lines 104 and 36-50)
BatchInvoke ==
  /\ pc = "batch" /\ month_idx <= Len(files)
  /\ ~OutputExists(month_idx)
  /\ pc' = "checkout"
  /\ exit_code' = 0
  /\ prior_ref' = head
  /\ invoked' = invoked \cup {month_idx}
  /\ Reached
  /\ UNCHANGED << matchVars, packageVars, resolveVars, package_idx,
                  closureVars, temporalVars, snapshotVars, concurrentVars,
                  driverVars, files, treeVars, exited_nonzero >>

\* checkout_commit(commit_hash): git checkout moves the tree, or fails and
\* main's handler sets the exit status
Checkout ==
  /\ pc = "checkout"
  /\ \E ok \in BOOLEAN :
       IF ok THEN /\ head' = CommitHash(month_idx)
                  /\ pc' = "extract"
                  /\ UNCHANGED exit_code
             ELSE /\ exit_code' = 1
                  /\ pc' = "finally"
                  /\ UNCHANGED head
  /\ UNCHANGED << matchVars, packageVars, resolveVars, package_idx,
                  closureVars, temporalVars, snapshotVars, concurrentVars,
                  driverVars, files, branches, historyVars >>

\* extract_registry_snapshot / extract_metadata_snapshot after the checkout:
\* the snapshot is built, or an exception reaches main
ExtractSnapshot ==
  /\ pc = "extract"
  /\ \E ok \in BOOLEAN :
       IF ok THEN pc' = "save" /\ UNCHANGED exit_code
             ELSE exit_code' = 1 /\ pc' = "finally"
  /\ UNCHANGED << matchVars, packageVars, resolveVars, package_idx,
                  closureVars, temporalVars, snapshotVars, concurrentVars,
                  driverVars, files, treeVars, historyVars >>

\* save_snapshot(snapshot, output_path): open(output_path, 'w') creates the
\* file, json.dump fills it; either call may raise
SaveSnapshot ==
  /\ pc = "save"
  /\ \E result \in {"saved", "open raises", "dump raises"} :
       /\ files' = [files EXCEPT ![month_idx] =
                      IF result = "saved" THEN "complete"
                      ELSE IF result = "dump raises" THEN "partial"
                      ELSE @]
       /\ exit_code' = IF result = "saved" THEN 0 ELSE 1
  /\ pc' = "finally"
  /\ UNCHANGED << matchVars, packageVars, resolveVars, package_idx,
                  closureVars, temporalVars, snapshotVars, concurrentVars,
                  driverVars, treeVars, historyVars >>

\* main's finally clause, run_git_command(["checkout", "main"]) with every
\* error swallowed, and the end of the process
RestoreTree ==
  /\ pc = "finally"
  /\ head' = IF "main" \in branches THEN "main" ELSE head
  /\ exited_nonzero' = IF exit_code # 0 THEN exited_nonzero \cup {month_idx}
                       ELSE exited_nonzero
  /\ pc' = "exited"
  /\ UNCHANGED << matchVars, packageVars, resolveVars, package_idx,
                  closureVars, temporalVars, snapshotVars, concurrentVars,
                  driverVars, files, branches, exit_code,
                  prior_ref, invoked, seen_existing >>

\* the script's result as the driver reads it: check=True and
\* CalledProcessError (registry); return code, then os.path.exists (metadata)
Success ==
  IF driver = "registry" THEN exit_code = 0
  ELSE exit_code = 0 /\ OutputExists(month_idx)

\* lines 84-89 (metadata 106-109): the month is recorded and the loop goes on
BatchRecord ==
  /\ pc = "exited"
  /\ IF Success
       THEN completed' = completed \cup {month_idx} /\ UNCHANGED failed
       ELSE failed' = RecordFailed(month_idx) /\ UNCHANGED completed
  /\ month_idx' = month_idx + 1
  /\ pc' = "batch"
  /\ UNCHANGED << matchVars, packageVars, resolveVars, package_idx,
                  closureVars, temporalVars, snapshotVars, concurrentVars,
                  driver, skipped, files, treeVars, exit_code, historyVars >>

\* the loop is over: the summary is printed
BatchSummary ==
  /\ pc = "batch" /\ month_idx > Len(files)
  /\ pc' = "done"
  /\ UNCHANGED << matchVars, packageVars, resolveVars, package_idx,
                  closureVars, temporalVars, buildVars >>

NextBatch ==
  \/ BatchSkip \/ BatchInvoke
  \/ Checkout \/ ExtractSnapshot \/ SaveSnapshot \/ RestoreTree
  \/ BatchRecord \/ BatchSummary

SpecBatch == InitBatch /\ [][NextBatch]_vars

(***************************************************************************)
(* extract_registry_snapshot after the checkout: the walk over the package *)
(* directories.  A directory is the state of its two metadata files        *)
(* (Package.toml, package.toml: "missing", "ok", or "corrupt" when         *)
(* tomllib raises on it) and of its other tables ("parsed" or "corrupt");  *)
(* package names are unique in a registry, so the name of a directory is   *)
(* its position in the walk.                                               *)
(***************************************************************************)
FileStatus == {"missing", "ok", "corrupt"}

\* sub in s, for two strings
Substring(sub, s) ==
  \E i \in 1..(Len(s) - Len(sub) + 1) : SubSeq(s, i, i + Len(sub) - 1) = sub

\* get_repo_path(): the directory of the script joined with "General"
RepoPaths ==
  { << "/", "w", "/", "G", "e", "n", "e", "r", "a", "l" >>,
    << "/", "j", "l", "l", "/", "G", "e", "n", "e", "r", "a", "l" >> }

Zlib == << "Z", "l", "i", "b" >>

Zlib_jll == << "Z", "l", "i", "b", "_", "j", "l", "l" >>

\* the package directories of the tree: every state of the files of a
\* package of the regular letter buckets, and packages of either name in
\* the regular buckets and in the buckets under jll/
DirPool ==
  [bucket : {"regular"}, name : {Zlib},
   late : FileStatus, early : FileStatus, tables : {"parsed", "corrupt"}]
    \cup [bucket : {"regular", "jll"}, name : {Zlib, Zlib_jll},
          late : {"ok"}, early : {"missing"}, tables : {"parsed"}]

\* str(package_dir): repo_path/Z/name or repo_path/jll/Z/name
PathStr(root, dir) ==
  root \o (IF dir.bucket = "jll" THEN << "/", "j", "l", "l" >> ELSE << >>)
       \o << "/", "Z", "/" >> \o dir.name

\* get_all_package_directories(repo_path): the packages of the regular
\* letter buckets, then those of the letter buckets under jll/
RegularFirst(dirs) ==
  \A i, j \in 1..Len(dirs) :
    (dirs[i].bucket = "jll" /\ dirs[j].bucket = "regular") => i > j

\* line 305: is_jll = "jll" in str(package_dir)
IsJll(root, dir) == Substring(<< "j", "l", "l" >>, PathStr(root, dir))

\* a detection that tries the early format first
CreatePackageHandlerEarlyFirst(dir) ==
  IF dir.early # "missing" THEN "early"
  ELSE IF dir.late # "missing" THEN "late"
  ELSE "unknown"

\* create_package_handler(package_dir): the format type; the handler is
\* None exactly for "unknown"
CreatePackageHandler(dir) ==
  IF dir.late # "missing" THEN "late"
  ELSE IF dir.early # "missing" THEN "early"
  ELSE "unknown"

\* handler.extract_metadata(): None when the file is missing or tomllib
\* raises
ExtractMetadata(dir, format_type) ==
  IF (IF format_type = "late" THEN dir.late ELSE dir.early) = "ok"
    THEN "metadata" ELSE "none"

\* handler.extract_all(): the other extractors return {} on any error
ExtractAll(dir, format_type) ==
  [metadata |-> ExtractMetadata(dir, format_type),
   dependencies |-> IF dir.tables = "parsed" THEN "deps" ELSE "empty",
   versions |-> IF dir.tables = "parsed" THEN "versions" ELSE "empty",
   compatibility |-> IF dir.tables = "parsed" THEN "compat" ELSE "empty"]

\* d[key] = value on a dict
DictSet(d, key, value) ==
  [k \in (DOMAIN d) \cup {key} |-> IF k = key THEN value ELSE d[k]]

\* lines 307-315 without the test of line 301 on the dependencies
AddPackageDepsAlways(snap, package_name, format_type, package_info, is_jll) ==
  IF package_info.metadata = "none"
    THEN [snap EXCEPT !.dependencies =
                        DictSet(@, package_name, package_info.dependencies)]
    ELSE [snap EXCEPT
            !.packages = DictSet(@, package_name,
                                 [metadata |-> package_info.metadata,
                                  versions |-> package_info.versions,
                                  compatibility |-> package_info.compatibility,
                                  format |-> format_type,
                                  is_jll |-> is_jll]),
            !.dependencies =
               DictSet(@, package_name, package_info.dependencies)]

\* lines 301-315: the package enters both maps unless its metadata is None
AddPackage(snap, package_name, format_type, package_info, is_jll) ==
  IF package_info.metadata = "none" THEN snap
  ELSE [snap EXCEPT
          !.packages = DictSet(@, package_name,
                               [metadata |-> package_info.metadata,
                                versions |-> package_info.versions,
                                compatibility |-> package_info.compatibility,
                                format |-> format_type,
                                is_jll |-> is_jll]),
          !.dependencies =
             DictSet(@, package_name, package_info.dependencies)]

\* a count taken after the test of line 295, which leaves out the
\* directories without a handler
CountFormatKnown(snap, format_type) ==
  IF format_type = "unknown" THEN snap
  ELSE [snap EXCEPT !.format_stats[format_type] = @ + 1]

\* line 293: snapshot["format_stats"][format_type] += 1
CountFormat(snap, format_type) ==
  [snap EXCEPT !.format_stats[format_type] = @ + 1]

\* lines 295-315, once the format is counted
HandlePackage(snap, package_name, root, dir, format_type) ==
  IF format_type = "unknown" THEN snap
  ELSE AddPackage(snap, package_name, format_type,
                  ExtractAll(dir, format_type), IsJll(root, dir))

\* lines 288-315: the loop body for one package directory
ProcessPackageDir(snap, package_name, root, dir) ==
  HandlePackage(CountFormat(snap, CreatePackageHandler(dir)),
                package_name, root, dir, CreatePackageHandler(dir))

InitSnapshot ==
  /\ pc = "walk"
  /\ repo_path \in RepoPaths
  /\ package_dirs \in {dirs \in UNION {[1..n -> DirPool] : n \in 0..MaxDirs} :
                         RegularFirst(dirs)}
  /\ walked = 0
  /\ snapshot = EmptySnapshot
  /\ IdleMatch /\ IdlePackage /\ IdleResolve /\ IdleGraph /\ IdleBatch
  /\ IdleConcurrent

\* the loop body for the next package directory
WalkPackage ==
  /\ pc = "walk" /\ walked < Len(package_dirs)
  /\ snapshot' = ProcessPackageDir(snapshot, walked + 1, repo_path,
                                   package_dirs[walked + 1])
  /\ walked' = walked + 1
  /\ UNCHANGED << pc, matchVars, packageVars, resolveVars, package_idx,
                  closureVars, temporalVars, batchVars, concurrentVars,
                  repo_path, package_dirs >>

\* line 317: return snapshot
ReturnSnapshot ==
  /\ pc = "walk" /\ walked = Len(package_dirs)
  /\ pc' = "snapshot"
  /\ UNCHANGED << matchVars, packageVars, resolveVars, package_idx,
                  closureVars, temporalVars, buildVars >>

NextSnapshot == WalkPackage \/ ReturnSnapshot

SpecSnapshot == InitSnapshot /\ [][NextSnapshot]_vars

(***************************************************************************)
(* Two runs of extract_dependencies.py against one working tree.  A build  *)
(* is [pc, commit, read_at]: its position, the commit it was asked for,    *)
(* and, for every package directory it has walked, the ref the tree was    *)
(* checked out at when it read the directory.  The caller either runs the  *)
(* builds strictly one after another (serialised) or starts them without   *)
(* waiting.                                                                *)
(***************************************************************************)
Builds == {1, 2}

\* a checkout that leaves the tree where it is
AfterCheckoutKeep(tree_head, ref) == tree_head

\* git checkout ref: the tree is at ref
AfterCheckout(tree_head, ref) == ref

\* no other build is between its checkout and its exit
Alone(b) == \A c \in Builds \ {b} : builds[c].pc \in {"start", "exited"}

InitConcurrent ==
  /\ pc = "builds"
  /\ builds \in [Builds -> [pc : {"start"}, commit : {"h1", "h2"},
                            read_at : {<< >>}]]
  /\ serialised \in BOOLEAN
  /\ branches \in {{"main"}, {"master"}, {"main", "master"}}
  /\ head \in branches
  /\ driver = "none" /\ files = << >> /\ month_idx = 0
  /\ completed = {} /\ skipped = {} /\ failed = {}
  /\ exit_code = 0 /\ prior_ref = "none"
  /\ invoked = {} /\ seen_existing = {} /\ exited_nonzero = {}
  /\ IdleMatch /\ IdlePackage /\ IdleResolve /\ IdleGraph /\ IdleSnapshot

\* what no step of a build changes
BuildFrame ==
  UNCHANGED << pc, matchVars, packageVars, resolveVars, package_idx,
               closureVars, temporalVars, snapshotVars, driverVars, files,
               branches, exit_code, historyVars, serialised >>

\* extract_registry_snapshot lines 273-275: checkout_commit(commit_hash)
\* moves the shared tree, or git fails and main goes to its finally clause
BuildCheckout(b) ==
  /\ builds[b].pc = "start"
  /\ serialised => Alone(b)
  /\ \E ok \in BOOLEAN :
       IF ok THEN /\ head' = AfterCheckout(head, builds[b].commit)
                  /\ builds' = [builds EXCEPT ![b].pc = "walk"]
             ELSE /\ builds' = [builds EXCEPT ![b].pc = "finally"]
                  /\ UNCHANGED head
  /\ BuildFrame

\* lines 288-315 for one package directory: its files are read from the
\* tree as it is checked out now
BuildWalk(b) ==
  /\ builds[b].pc = "walk" /\ Len(builds[b].read_at) < MaxReads
  /\ builds' = [builds EXCEPT ![b].read_at = Append(@, head)]
  /\ UNCHANGED head
  /\ BuildFrame

\* the walk is over (or an exception ended it) and main saves the snapshot
BuildSave(b) ==
  /\ builds[b].pc = "walk"
  /\ builds' = [builds EXCEPT ![b].pc = "finally"]
  /\ UNCHANGED head
  /\ BuildFrame

\* main's finally clause: git checkout main, errors swallowed
BuildRestore(b) ==
  /\ builds[b].pc = "finally"
  /\ head' = IF "main" \in branches THEN AfterCheckout(head, "main") ELSE head
  /\ builds' = [builds EXCEPT ![b].pc = "exited"]
  /\ BuildFrame

NextConcurrent ==
  \E b \in Builds :
    BuildCheckout(b) \/ BuildWalk(b) \/ BuildSave(b) \/ BuildRestore(b)

SpecConcurrent == InitConcurrent /\ [][NextConcurrent]_vars

(***************************************************************************)
(* Properties of _version_in_range (SpecMatch).                            *)
(***************************************************************************)
\* the range is "a-b" with a and b dotted numbers, the version is a dotted
\* number
NumericRange ==
  /\ Contains(version_range, "-")
  /\ TokenOk(SplitOnce(version_range, "-")[1])
  /\ TokenOk(SplitOnce(version_range, "-")[2])
  /\ TokenOk(version)

RangeStart == SplitOnce(version_range, "-")[1]

RangeEnd == SplitOnce(version_range, "-")[2]

\* the first n components of a coerced version
Leading(v, n) == SubSeq(Coerce(v).key, 1, n)

\* C2 as stated: matches(v, "a-b") iff coerce(a) <= coerce(v) <= coerce(b),
\* both ends closed at the zero-filled bounds.
C2_ClosedInterval ==
  (pc = "matched" /\ NumericRange) =>
    (in_range <=> /\ VersionLeq(Coerce(RangeStart), Coerce(version))
                  /\ VersionLeq(Coerce(version), Coerce(RangeEnd)))

\* C2 amended: matches(v, "a-b") iff coerce(a) <= coerce(v) and the first n
\* components of coerce(v) are at most b, n being the number of components
\* of b: an end bound shorter than three components admits every version
\* that shares its leading components.
C2_LeadingComponents ==
  (pc = "matched" /\ NumericRange) =>
    (in_range <=> /\ TupleLeq(Coerce(RangeStart).key, Coerce(version).key)
                  /\ TupleLeq(Leading(version, Len(TokenParts(RangeEnd))),
                              TokenParts(RangeEnd)))

\* a version above the zero-filled end bound that the range still admits
C2_Witness ==
  /\ pc = "matched" /\ NumericRange /\ in_range
  /\ VersionLess(Coerce(RangeEnd), Coerce(version))

\* C4: a bound or bare token of fewer than three components covers every
\* version sharing those leading components: the eleven cases of
\* test_version_range_logic return the listed result, a bare dotted number
\* of n components matches exactly the versions whose first n components
\* equal it, and an end bound of n components admits every version at or
\* above the start whose first n components equal it.
C4_PartialTokens ==
  pc = "matched" =>
    /\ \A t \in TestCases :
         (t.v = version /\ t.r = version_range) => in_range = t.expected
    /\ (TokenOk(version) /\ TokenOk(version_range)) =>
         (in_range <=> Leading(version, Len(TokenParts(version_range)))
                         = TokenParts(version_range))
    /\ (/\ NumericRange
        /\ TupleLeq(Coerce(RangeStart).key, Coerce(version).key)
        /\ Leading(version, Len(TokenParts(RangeEnd))) = TokenParts(RangeEnd))
         => in_range

\* the bare token "0" has matched 0.22.6
C4_Witness ==
  /\ pc = "matched" /\ in_range
  /\ version = << "0", ".", "2", "2", ".", "6" >>
  /\ version_range = << "0" >>

(***************************************************************************)
(* Properties of dependency resolution (SpecResolve).                      *)
(***************************************************************************)
Range(f) == {f[i] : i \in DOMAIN f}

IndexPermutations(n) == {f \in [1..n -> 1..n] : Injective(f)}

Permute(seq, f) == [i \in 1..Len(seq) |-> seq[f[i]]]

\* the default-mode call selected a latest version and returned normally
Selected == pc = "default" /\ outcome = "ok" /\ latest_version # << >>

\* positions of the mapping-valued entries whose range matches v
MatchingAt(v) ==
  {i \in 1..Len(deps_data) :
     deps_data[i].is_dict /\ VersionInRange(v, deps_data[i].range)}

\* d maps every id of the entries at positions I to the name given by the
\* last of those entries that holds the id, and nothing else
LastWins(d, I) ==
  /\ DOMAIN d = UNION {DOMAIN deps_data[i].deps : i \in I}
  /\ \A id \in DOMAIN d :
       \E i \in I :
         /\ id \in DOMAIN deps_data[i].deps
         /\ d[id] = deps_data[i].deps[id]
         /\ \A j \in I : (j > i) => id \notin DOMAIN deps_data[j].deps

\* C1: default-mode resolution for the latest version V returns exactly the
\* union of the dependency maps of the mapping-valued entries whose range
\* matches V, a later entry overwriting an earlier one on an id collision;
\* non-matching entries contribute nothing.
C1_UnionOfMatching ==
  Selected => LastWins(current_deps, MatchingAt(latest_version))

\* two matching entries collide on an id, a third kind of entry is absent
\* or does not match, and the later name was returned
C1_Witness ==
  /\ Selected
  /\ \E i, j \in MatchingAt(latest_version) :
       /\ i < j
       /\ \E id \in DOMAIN deps_data[i].deps \cap DOMAIN deps_data[j].deps :
            /\ deps_data[i].deps[id] # deps_data[j].deps[id]
            /\ current_deps[id] = deps_data[j].deps[id]

ExamplePackage ==
  /\ deps_file = "ok" /\ versions_file = "ok"
  /\ Range(deps_data) = Range(ExampleTable)
  /\ Range(versions) = {V100, V150}

\* C3 as stated: for the table {"1": {u1: B}, "1.2-2": {u2: C}} and the
\* versions {1.0.0, 1.5.0} the latest version is 1.5.0 and default-mode
\* resolution yields only {u2: C}.
C3_ExactToken ==
  (pc = "default" /\ ExamplePackage) =>
    (latest_version = V150 /\ current_deps = u2C)

\* C3 amended: a hyphen-free range of fewer than three components matches
\* every version sharing its leading components; for the example table the
\* latest version is 1.5.0 and default-mode resolution yields
\* {u1: B, u2: C}, the entry keyed "1" being merged.
C3_LeadingToken ==
  /\ (pc = "default" /\ ExamplePackage) =>
       (latest_version = V150 /\ current_deps = DictUpdate(u1B, u2C))
  /\ Selected =>
       \A i \in 1..Len(deps_data) :
         (deps_data[i].is_dict /\ deps_data[i].range \in {R1, R2}) =>
           (i \in MatchingAt(latest_version)
              <=> << Coerce(latest_version).key[1] >> = TokenParts(deps_data[i].range))

C3_Witness ==
  /\ pc = "default" /\ ExamplePackage
  /\ "u1" \in DOMAIN current_deps

\* the historical-mode call found the target and returned a mapping
Historical == pc = "historical" /\ outcome = "ok"

TargetMajor == SplitHead(target_version, ".")

\* positions of the entries the loop of the historical mode merges
OthersAt ==
  {i \in 1..Len(deps_data) :
     /\ deps_data[i].is_dict
     /\ deps_data[i].range \notin {TargetMajor, R1}
     /\ VersionInRange(target_version, deps_data[i].range)}

\* positions of the mapping-valued entries keyed by key
KeyedAt(key) ==
  {i \in 1..Len(deps_data) : deps_data[i].is_dict /\ deps_data[i].range = key}

\* C5: historical-mode resolution for a target present in the version
\* table merges the entry keyed by the target's major version, then the
\* entry keyed "1" whatever the target's major version is, then every other
\* mapping-valued entry whose range matches the target, later merges
\* overwriting earlier ones; for the example table and target 1.5.0 the
\* result is {u1: B, u2: C}.
C5_HistoricalPreMerge ==
  /\ Historical =>
       /\ DOMAIN current_deps =
            UNION {DOMAIN deps_data[i].deps :
                     i \in OthersAt \cup KeyedAt(R1) \cup KeyedAt(TargetMajor)}
       /\ \A id \in DOMAIN current_deps :
            LET holds(I) == {i \in I : id \in DOMAIN deps_data[i].deps}
            IN  IF holds(OthersAt) # {}
                  THEN \E i \in holds(OthersAt) :
                         /\ current_deps[id] = deps_data[i].deps[id]
                         /\ \A j \in holds(OthersAt) : j <= i
                ELSE IF holds(KeyedAt(R1)) # {}
                  THEN \E i \in holds(KeyedAt(R1)) :
                         current_deps[id] = deps_data[i].deps[id]
                ELSE \E i \in holds(KeyedAt(TargetMajor)) :
                       current_deps[id] = deps_data[i].deps[id]
  /\ (Historical /\ ExamplePackage /\ target_version = V150) =>
       current_deps = DictUpdate(u1B, u2C)

\* the entry keyed "1" was merged for the target 2.0.0, which it does not
\* match
C5_Witness ==
  /\ Historical /\ target_version = V200
  /\ ~VersionInRange(V200, R1)
  /\ \E i \in KeyedAt(R1) :
       \E id \in DOMAIN deps_data[i].deps :
         id \in DOMAIN current_deps /\ current_deps[id] = deps_data[i].deps[id]

\* the mapping the default mode returns for the table enumerated in order f
Reordered(f) ==
  ExtractDependencies(deps_file, Permute(deps_data, f), versions_file, versions).deps

\* positions of the entries the default mode merges
MergedAt ==
  IF latest_version = << >>
    THEN {i \in 1..Len(deps_data) : deps_data[i].is_dict}
    ELSE MatchingAt(latest_version)

\* the merged entries give every shared id the same name
MergedAgree ==
  \A i, j \in MergedAt :
    \A id \in DOMAIN deps_data[i].deps \cap DOMAIN deps_data[j].deps :
      deps_data[i].deps[id] = deps_data[j].deps[id]

\* C6 as stated: for the same set of entries the default mode returns the
\* identical id -> name mapping whatever order the table is enumerated in,
\* also when two matching entries give the same id different names.
C6_OrderIndependent ==
  pc = "default" =>
    \A f \in IndexPermutations(Len(deps_data)) : Reordered(f) = current_deps

\* C6 amended: for the same set of entries the default mode returns the
\* same set of dependency ids whatever order the table is enumerated in,
\* and the identical id -> name mapping when the merged entries give every
\* shared id the same name; when two merged entries give one id different
\* names, the name of the entry enumerated last is returned.
C6_OrderIndependentIds ==
  pc = "default" =>
    \A f \in IndexPermutations(Len(deps_data)) :
      /\ DOMAIN Reordered(f) = DOMAIN current_deps
      /\ MergedAgree => Reordered(f) = current_deps
      /\ \A id \in DOMAIN Reordered(f) :
           \E i \in 1..Len(deps_data) :
             /\ f[i] \in MergedAt
             /\ id \in DOMAIN deps_data[f[i]].deps
             /\ Reordered(f)[id] = deps_data[f[i]].deps[id]
             /\ \A j \in (i + 1)..Len(deps_data) :
                  f[j] \in MergedAt => id \notin DOMAIN deps_data[f[j]].deps

\* two entries with different ids were merged
C6_Witness ==
  /\ Selected
  /\ \E i, j \in MergedAt :
       /\ i # j
       /\ DOMAIN deps_data[i].deps # DOMAIN deps_data[j].deps
       /\ DOMAIN current_deps = DOMAIN deps_data[i].deps \cup DOMAIN deps_data[j].deps

\* C7: latest-version selection is order-independent for both comparators:
\* every permutation of the enumeration order of the version set yields the
\* same selected version string, also when two strings compare equal.
C7_SelectOrderIndependent ==
  /\ Selected =>
       \A f \in IndexPermutations(Len(versions)) :
         MaxByCoerce(Permute(versions, f)) = latest_version
  /\ (pc = "legacy" /\ versions # << >>) =>
       \A f \in IndexPermutations(Len(versions)) :
         MaxByTuple(Permute(versions, f)) = latest_version

\* a version string without any digit
NoNumeric(v) == OnlyDigits(v) = << >>

\* C8: latest-version selection never fails: for every non-empty version
\* table, malformed strings included, it returns a member of the table, a
\* malformed string is never preferred over a well-formed one, and the
\* dependencies are resolved for the selected version.
C8_TotalSelection ==
  /\ (pc = "default" /\ deps_file = "ok" /\ versions_file = "ok" /\ versions # << >>) =>
       /\ outcome = "ok"
       /\ HasKey(versions, latest_version)
       /\ NoNumeric(latest_version) => \A i \in 1..Len(versions) : NoNumeric(versions[i])
       /\ LastWins(current_deps, MatchingAt(latest_version))
  /\ (pc = "legacy" /\ versions # << >>) =>
       /\ HasKey(versions, latest_version)
       /\ NoNumeric(latest_version) => \A i \in 1..Len(versions) : NoNumeric(versions[i])
       /\ \E i \in 1..Len(versions) :
            /\ versions[i] = latest_version
            /\ current_deps = IF requires[i].exists
                                THEN ParseRequires(requires[i].names)
                                ELSE EmptyDict

(***************************************************************************)
(* Properties of compute_recursive_dependencies (SpecClosure).             *)
(***************************************************************************)
\* the nodes a directed path of k edges leads to from node s
PathEnds(A, s, k) ==
  {p[k] : p \in {w \in [1..k -> 0..(A.n - 1)] :
                   /\ << s, w[1] >> \in A.edges
                   /\ \A i \in 1..(k - 1) : << w[i], w[i + 1] >> \in A.edges}}

\* the nodes reachable from s by a path of at least one edge; a shortest
\* such path has at most as many edges as there are nodes
Reachable(A, s) == UNION {PathEnds(A, s, k) : k \in 1..A.n}

\* s lies on a cycle: some path of at least one edge leads from s back to s
OnCycle(A, s) == \E k \in 1..A.n : s \in PathEnds(A, s, k)

\* C9: compute_recursive_dependencies returns exactly the nodes reachable
\* from the start node by a directed path of at least one edge, and the
\* start node is in the result only if it lies on a cycle.
C9_ClosureIsReachable ==
  pc = "returned" =>
    /\ deps = Reachable(adj_matrix, package_idx)
    /\ package_idx \in deps => OnCycle(adj_matrix, package_idx)

\* a returned closure that holds the start node, which lies on a cycle, and
\* a node that is not a direct dependency
C9_Witness ==
  /\ pc = "returned"
  /\ package_idx \in deps
  /\ deps \ RowNonzero(adj_matrix, package_idx) # {}

(***************************************************************************)
(* Properties of create_union_dependency_graph (SpecTemporal).             *)
(***************************************************************************)
\* the node sets stored for the slices
SliceNodeSets == {temporal_deps_sets[i] : i \in 1..Len(temporal_deps_sets)}

\* the union computed from the slices stored in the order f
UnionReordered(f) ==
  CreateUnionDependencyGraph(Permute(temporal_graphs, f),
                             Permute(temporal_deps_sets, f))

\* C10: the node set of the union graph is the set-union of the per-slice
\* node sets, and it is the same for every order of the slices.
C10_UnionNodeSet ==
  pc = "union" =>
    /\ all_deps_union = UNION SliceNodeSets
    /\ Range(deps_list) = UNION SliceNodeSets
    /\ union_subgraph.m = Cardinality(UNION SliceNodeSets)
    /\ \A f \in IndexPermutations(Len(temporal_deps_sets)) :
         /\ UnionReordered(f).all_deps_union = all_deps_union
         /\ UnionReordered(f).deps_list = deps_list

\* a union built from two slices of which each has a node the other lacks
C10_Witness ==
  /\ pc = "union"
  /\ \E i, j \in 1..Len(temporal_deps_sets) :
       /\ temporal_deps_sets[i] \ temporal_deps_sets[j] # {}
       /\ temporal_deps_sets[j] \ temporal_deps_sets[i] # {}

\* edge (i, j) between union nodes, read in the reindexed union graph
UnionEdge(i, j) ==
  << OrigToGraph(deps_list, i), OrigToGraph(deps_list, j) >>
    \in union_subgraph.edges

\* the slices whose matrix holds the edge (i, j)
SlicesWithEdge(i, j) ==
  {s \in 1..Len(matrices) : << i, j >> \in matrices[s].edges}

\* C11 as stated: for union nodes i and j, (i, j) is an edge of the union
\* graph iff it is an edge of at least one slice's adjacency matrix, whether
\* or not i is in that slice's node set.
C11_UnionEdgesAnySlice ==
  pc = "union" =>
    \A i, j \in all_deps_union :
      UnionEdge(i, j) <=> SlicesWithEdge(i, j) # {}

\* C11 as the code has it: for union nodes i and j, (i, j) is an edge of
\* the union graph iff some slice's adjacency matrix holds it and both i
\* and j are in the node set of that same slice; the union graph has no
\* other edge.
C11_UnionEdgesWithinSlice ==
  pc = "union" =>
    /\ \A i, j \in all_deps_union :
         UnionEdge(i, j) <=>
           \E s \in SlicesWithEdge(i, j) :
             i \in temporal_deps_sets[s] /\ j \in temporal_deps_sets[s]
    /\ union_subgraph.edges \subseteq
         {<< OrigToGraph(deps_list, i), OrigToGraph(deps_list, j) >> :
            i, j \in all_deps_union}

\* a union graph with an edge, built from slices one of which holds an edge
\* between two union nodes whose source is outside that slice's node set
C11_Witness ==
  /\ pc = "union"
  /\ union_subgraph.edges # {}
  /\ \E i, j \in all_deps_union :
       \E s \in SlicesWithEdge(i, j) : i \notin temporal_deps_sets[s]

(***************************************************************************)
(* Properties of cluster_by_first_appearance_in_deps (SpecTemporal).       *)
(***************************************************************************)
\* ordinal (from 1, in date order) of the first slice whose node set holds x
FirstSlice(x) ==
  Least({k \in 1..Len(temporal_deps_sets) : x \in temporal_deps_sets[k]})

\* the lowest-indexed union node first seen in the same slice as x
FirstOfCluster(x) ==
  Least({y \in all_deps_union : FirstSlice(y) = FirstSlice(x)})

\* C12 as stated: the cluster id of every union node is the ordinal, in
\* chronological order, of the first slice whose node set contains it
\* (ordinals counted from 0, or counted from 1).
C12_ClusterIsSliceOrdinal ==
  pc = "clustered" =>
    \/ \A i \in 1..Len(deps_list) : clusters[i] = FirstSlice(deps_list[i]) - 1
    \/ \A i \in 1..Len(deps_list) : clusters[i] = FirstSlice(deps_list[i])

\* C12 as the code has it: the cluster id of a union node is the id given
\* to its first slice, and first slices are numbered from 0 in the order in
\* which they are met when the union nodes are scanned by ascending index:
\* the id is the number of distinct first slices among the union nodes that
\* precede the lowest-indexed node of its cluster.
C12_ClusterIsEncounterOrdinal ==
  pc = "clustered" =>
    /\ Len(clusters) = Len(deps_list)
    /\ \A i \in 1..Len(deps_list) :
         /\ clusters[i] =
              Cardinality({FirstSlice(y) :
                             y \in {z \in all_deps_union :
                                      z < FirstOfCluster(deps_list[i])}})
         /\ FirstSlice(deps_list[i]) \in DOMAIN date_to_cluster
         /\ date_to_cluster[FirstSlice(deps_list[i])] = clusters[i]

\* a clustering in which a node first seen in a later slice has a smaller
\* cluster id than a node first seen in an earlier slice
C12_Witness ==
  /\ pc = "clustered"
  /\ \E i, j \in 1..Len(deps_list) :
       /\ clusters[i] < clusters[j]
       /\ FirstSlice(deps_list[i]) > FirstSlice(deps_list[j])

\* the first slices of the union nodes
FirstSlices == {FirstSlice(deps_list[i]) : i \in 1..Len(deps_list)}

\* C29: two union nodes have the same cluster id exactly when the first
\* slice, in date order, whose node set holds the one is also the first
\* that holds the other, and the cluster ids in use are exactly 0..k-1 for
\* k distinct first slices.
C29_ClustersPartitionByFirstSlice ==
  pc = "clustered" =>
    /\ \A i, j \in 1..Len(deps_list) :
         clusters[i] = clusters[j]
           <=> FirstSlice(deps_list[i]) = FirstSlice(deps_list[j])
    /\ {clusters[i] : i \in 1..Len(clusters)}
         = 0..(Cardinality(FirstSlices) - 1)

\* a clustering with two clusters, one of which holds two nodes
C29_Witness ==
  /\ pc = "clustered"
  /\ Cardinality(FirstSlices) = 2
  /\ \E i, j \in 1..Len(deps_list) : i # j /\ clusters[i] = clusters[j]

\* C30: the extraction completes for every slice, also for a slice whose
\* row bound is at or below the index of the target or of a node of the
\* slice's node set: the run fails only without a matrix file or after
\* the last slice; with include_self the node set stored for a slice is
\* its closure without the excluded packages plus the target; and a node
\* without a row has no edge in the stored subgraph.
C30_SliceExtractionCompletes ==
  /\ pc = "failed" => Len(temporal_graphs) = Len(matrices)
  /\ \A k \in 1..Len(temporal_deps_sets) :
       /\ include_self =>
            temporal_deps_sets[k]
              = (ComputeRecursiveDependencies(matrices[k], package_idx)
                   \ exclude_indices) \cup {package_idx}
       /\ \A e \in temporal_graphs[k].edges : e[1] < matrices[k].m

(***************************************************************************)
(* Properties of the snapshot build and of the batch drivers (SpecBatch).  *)
(***************************************************************************)
\* C13: when a snapshot build has ended, on any exit path, the working tree
\* is back at the reference it had before the build started, whatever that
\* reference was.
C13_TreeRestored ==
  pc = "exited" => head = prior_ref

\* C14: no output document exists for a month whose build failed: whatever
\* step failed, the output path holds no file, so that a later run of the
\* driver does not skip the month.
C14_NoDocumentForFailedBuild ==
  \A month \in exited_nonzero :
    files[month] = "absent" /\ ~OutputExists(month)

\* the months the loop has dealt with
Recorded == skipped \cup completed \cup failed

\* C15: the driver invokes extraction for a month iff no output document
\* for it exists when the month is reached, and skips it otherwise; with
\* documents present for the first and third of three months and a
\* successful extraction of the second, the run extracts only the second
\* and reports 2 skipped, 1 completed, 0 failed.
C15_ExtractIffNoDocument ==
  /\ invoked \cap seen_existing = {}
  /\ skipped = seen_existing
  /\ \A month \in 1..Len(files) :
       month < month_idx => month \in invoked \cup skipped
  /\ (pc = "done" /\ Len(files) = 3 /\ seen_existing = {1, 3}
        /\ files[2] = "complete") =>
       /\ invoked = {2}
       /\ Cardinality(skipped) = 2
       /\ Cardinality(completed) = 1
       /\ Cardinality(failed) = 0

\* the run of the example: documents for months 1 and 3, month 2 extracted
C15_Witness ==
  /\ pc = "done" /\ Len(files) = 3
  /\ seen_existing = {1, 3}
  /\ files[2] = "complete"
  /\ invoked = {2}

\* C16: a build that exits non-zero aborts only its own month: the driver
\* records exactly those months as failed, never stops before the end of
\* the index, and has dealt with every month when it ends.
C16_FailureAbortsOnlyThatMonth ==
  /\ failed = {month \in exited_nonzero : month < month_idx}
  /\ completed \cap exited_nonzero = {}
  /\ pc # "done" => ENABLED NextBatch
  /\ pc = "done" =>
       /\ month_idx = Len(files) + 1
       /\ Recorded = 1..Len(files)
       /\ invoked = completed \cup failed

\* a finished run in which a month failed and a later month was extracted
C16_Witness ==
  /\ pc = "done"
  /\ \E month \in failed :
       \E later \in completed : later > month

(***************************************************************************)
(* Claims on the snapshot walk (SpecSnapshot).                             *)
(***************************************************************************)
Walked == 1..walked

WalkedOfFormat(format_type) ==
  {k \in Walked :
     /\ format_type = "late" => package_dirs[k].late # "missing"
     /\ format_type = "early" => /\ package_dirs[k].late = "missing"
                                 /\ package_dirs[k].early # "missing"
     /\ format_type = "unknown" => /\ package_dirs[k].late = "missing"
                                   /\ package_dirs[k].early = "missing"}

\* C17: every walked package directory is given exactly one variant: late
\* when its late-format metadata file exists (whether or not the early one
\* exists too), else early when the early-format metadata file exists, else
\* unknown, and an unknown directory has no handler, so no entry is made
\* for it.  The variant is read off the per-format counters and the format
\* recorded with each entry.
C17_OneVariantLateFirst ==
  /\ \A format_type \in {"late", "early", "unknown"} :
       snapshot.format_stats[format_type]
         = Cardinality(WalkedOfFormat(format_type))
  /\ snapshot.format_stats["late"] + snapshot.format_stats["early"]
       + snapshot.format_stats["unknown"] = walked
  /\ \A k \in DOMAIN snapshot.packages :
       /\ k \notin WalkedOfFormat("unknown")
       /\ k \in WalkedOfFormat(snapshot.packages[k].format)

\* a directory holding both metadata files was walked and entered as late
C17_Witness ==
  \E k \in Walked :
    /\ package_dirs[k].late = "ok" /\ package_dirs[k].early = "ok"
    /\ k \in DOMAIN snapshot.packages
    /\ snapshot.packages[k].format = "late"
    /\ snapshot.format_stats["late"] >= 1
    /\ WalkedOfFormat("unknown") # {}

\* the metadata file that the detected format reads
HandlerFile(k) ==
  IF package_dirs[k].late # "missing" THEN package_dirs[k].late
  ELSE package_dirs[k].early

\* C18: a walked package whose metadata extraction yields none (its
\* handler's metadata file does not parse) is in neither the packages map
\* nor the dependencies map, whatever its other tables gave, and a
\* directory of unknown format is in neither map as well; every other
\* walked package is in both; and all of them are counted, so the counters
\* add up to the number of directories walked.
C18_FailedMetadataOnlyCounted ==
  /\ \A k \in Walked :
       IF HandlerFile(k) = "ok"
         THEN /\ k \in DOMAIN snapshot.packages
              /\ k \in DOMAIN snapshot.dependencies
         ELSE /\ k \notin DOMAIN snapshot.packages
              /\ k \notin DOMAIN snapshot.dependencies
  /\ DOMAIN snapshot.packages \subseteq Walked
  /\ DOMAIN snapshot.dependencies \subseteq Walked
  /\ snapshot.format_stats["late"] + snapshot.format_stats["early"]
       + snapshot.format_stats["unknown"]
       = Cardinality(DOMAIN snapshot.packages)
           + Cardinality({k \in Walked : HandlerFile(k) # "ok"})

\* the walk is over; a package with a corrupt metadata file and parsed
\* tables is counted under its format and is in neither map, while another
\* package was entered
C18_Witness ==
  /\ pc = "snapshot"
  /\ \E k \in Walked :
       /\ package_dirs[k].late = "corrupt"
       /\ package_dirs[k].tables = "parsed"
       /\ k \notin DOMAIN snapshot.packages
       /\ k \notin DOMAIN snapshot.dependencies
       /\ snapshot.format_stats["late"] >= 1
  /\ DOMAIN snapshot.packages # {}

(***************************************************************************)
(* Further properties of compute_recursive_dependencies (SpecClosure).     *)
(***************************************************************************)
\* the matrices of the shape of B whose entries are among those of B
SubMatrices(B) == {[B EXCEPT !.edges = E] : E \in SUBSET B.edges}

\* C19: the closure is monotonic in the edge set: for the start node of the
\* run and every matrix A of the same shape whose entries are a subset of
\* those of the matrix of the run, the closure computed on A is a subset of
\* the closure returned by the run.
C19_ClosureMonotonic ==
  pc = "returned" =>
    \A A \in SubMatrices(adj_matrix) :
      ComputeRecursiveDependencies(A, package_idx) \subseteq deps

\* a returned closure that is strictly larger than the closure on a matrix
\* with one entry less, which is not empty either
C19_Witness ==
  /\ pc = "returned"
  /\ \E A \in SubMatrices(adj_matrix) :
       /\ Cardinality(A.edges) + 1 = Cardinality(adj_matrix.edges)
       /\ ComputeRecursiveDependencies(A, package_idx) # {}
       /\ ComputeRecursiveDependencies(A, package_idx) # deps
       /\ ComputeRecursiveDependencies(A, package_idx) \subseteq deps

\* the nodes a queue holds
QueueNodes(q) == {q[i] : i \in 1..Len(q)}

\* a step of the run adds nodes to the visited set without removing any;
\* the queue of the loop holds distinct visited nodes; the seeding enqueues
\* each node it adds once; an iteration removes the head of the queue and
\* appends, once each, exactly the nodes it adds to the visited set; and
\* the function returns the visited set only from an empty queue
EnqueueOnceStep ==
  /\ deps \subseteq deps'
  /\ pc' = "bfs" =>
       /\ QueueNodes(queue') \subseteq deps'
       /\ Cardinality(QueueNodes(queue')) = Len(queue')
  /\ pc = "closure" /\ pc' = "bfs" =>
       /\ QueueNodes(queue') = deps'
       /\ Len(queue') = Cardinality(deps')
  /\ pc = "bfs" /\ pc' = "bfs" =>
       /\ queue # << >>
       /\ Len(queue') = Len(queue) - 1 + Cardinality(deps' \ deps)
       /\ \A i \in 1..(Len(queue) - 1) : queue'[i] = queue[i + 1]
       /\ {queue'[i] : i \in Len(queue)..Len(queue')} = deps' \ deps
  /\ pc = "bfs" /\ pc' = "returned" => queue = << >> /\ deps' = deps

\* C20: on every matrix of the input set, with cycles and self-loops among
\* them, compute_recursive_dependencies returns: every node is added to the
\* visited set at most once and enqueued exactly when it is added, so at
\* most once, and the loop is left when the queue is empty.
C20_TerminatesEnqueueOnce ==
  /\ [][EnqueueOnceStep]_vars
  /\ <>(pc = "returned")

\* a run has returned from its loop on a matrix where a visited node has a
\* self-loop and two visited nodes lie on a cycle through each other
C20_Witness ==
  /\ pc = "returned" /\ package_idx < adj_matrix.m
  /\ \E i \in deps : << i, i >> \in adj_matrix.edges
  /\ \E i, j \in deps :
       /\ i # j
       /\ << i, j >> \in adj_matrix.edges
       /\ << j, i >> \in adj_matrix.edges

\* a step of the run on indices without a row: a start node at or beyond
\* the row bound makes the function return at once with the empty set; a
\* dequeued node at or beyond the row bound is dropped from the queue and
\* nothing else changes; and the returned set holds every column index the
\* start node reaches, with or without a row
OutOfRangeStep ==
  /\ pc = "closure" /\ package_idx >= adj_matrix.m =>
       pc' = "returned" /\ deps' = {} /\ queue' = << >>
  /\ pc = "bfs" /\ queue # << >> /\ Head(queue) >= adj_matrix.m =>
       pc' = "bfs" /\ deps' = deps /\ queue' = Tail(queue)
  /\ pc' = "returned" /\ package_idx < adj_matrix.m =>
       /\ Reachable(adj_matrix, package_idx) \subseteq deps'
       /\ \A d \in deps' :
            d >= adj_matrix.m => RowNonzero(adj_matrix, d) = {}
  /\ pc' \in {"closure", "bfs", "returned"}

\* C21: compute_recursive_dependencies does not fail on an index without a
\* row: a start node at or beyond the row bound gives the empty set, and a
\* reached column index at or beyond the row bound stays in the result and
\* is expanded as a node without out-edges.
C21_OutOfRangeTolerated == [][OutOfRangeStep]_vars

\* a returned closure from a start node with a row that holds a node
\* without a row and a node with one
C21_Witness ==
  /\ pc = "returned" /\ package_idx < adj_matrix.m
  /\ \E d \in deps : d >= adj_matrix.m
  /\ \E d \in deps : d < adj_matrix.m /\ d # package_idx

(***************************************************************************)
(* Failing tables of a package (SpecResolve).                              *)
(***************************************************************************)
\* a default-mode call on a package whose two tables parse
BothIntact == pc = "default" /\ deps_file = "ok" /\ versions_file = "ok"

\* the tables extract_all would give with the files in the given states
TablesWith(dfile, vfile, cfile) ==
  ExtractTables(dfile, deps_data, vfile, versions, cfile)

\* a failing dependency table leaves the versions and the compatibility
\* as they are with the table intact
DependencyFailureIsLocal ==
  \A dfile \in {"missing", "malformed"}, cfile \in FileStates :
    /\ TablesWith(dfile, versions_file, cfile).versions
         = TablesWith("ok", versions_file, cfile).versions
    /\ TablesWith(dfile, versions_file, cfile).compatibility
         = TablesWith("ok", versions_file, cfile).compatibility
    /\ TablesWith(dfile, versions_file, cfile).dependencies = EmptyDict

\* C22 as stated: a failing table changes no sibling field; with the
\* version table missing or unparsable the resolved dependencies are those
\* resolved with the version table intact, and a failing dependency table
\* leaves versions and compatibility unchanged.
C22_SiblingsUnaffected ==
  BothIntact =>
    /\ \A vfile \in {"missing", "malformed"} :
         TablesWith("ok", vfile, "ok").dependencies = current_deps
    /\ DependencyFailureIsLocal

\* C22 amended: a failing dependency table defaults to empty and leaves
\* versions and compatibility unchanged, and a failing version table
\* leaves compatibility unchanged; but with the version table missing or
\* unparsable the resolved dependencies are the unconditional merge of
\* every mapping-valued entry, whose ids include those resolved with the
\* version table intact and may exceed them.
C22_VersionFailureWidensDependencies ==
  BothIntact =>
    /\ \A vfile \in {"missing", "malformed"} :
         /\ TablesWith("ok", vfile, "ok").dependencies = FlattenAll(deps_data)
         /\ DOMAIN current_deps
              \subseteq DOMAIN TablesWith("ok", vfile, "ok").dependencies
         /\ TablesWith("ok", vfile, "ok").versions = << >>
         /\ TablesWith("ok", vfile, "ok").compatibility
              = TablesWith("ok", "ok", "ok").compatibility
    /\ TablesWith("ok", "ok", "ok").dependencies = current_deps
    /\ DependencyFailureIsLocal

\* a package with both tables intact whose resolved dependencies are not
\* empty and lack an id that the unconditional merge holds
C22_Witness ==
  /\ BothIntact /\ outcome = "ok"
  /\ current_deps # EmptyDict
  /\ DOMAIN FlattenAll(deps_data) \ DOMAIN current_deps # {}

\* a default-mode call on a package whose dependency table parses and
\* whose version table is absent, unparsable or empty
NoUsableVersions ==
  /\ pc = "default" /\ deps_file = "ok"
  /\ ExtractVersions(versions_file, versions) = << >>

\* positions of the mapping-valued entries
MappingAt == {i \in 1..Len(deps_data) : deps_data[i].is_dict}

\* C23: without a usable version set the default mode returns normally,
\* selects no version, and returns the merge of every mapping-valued entry
\* of the dependency table whatever its range, in file order with a later
\* entry overwriting an earlier one; entries that are not mappings
\* contribute nothing.
C23_FallbackMergesAll ==
  NoUsableVersions =>
    /\ outcome = "ok" /\ latest_version = << >>
    /\ LastWins(current_deps, MappingAt)

\* a package with an empty version table whose dependency table holds an
\* entry that is not a mapping and two mappings giving one id two names,
\* the later of which was returned
C23_Witness ==
  /\ NoUsableVersions /\ versions_file = "ok"
  /\ \E k \in 1..Len(deps_data) : ~deps_data[k].is_dict
  /\ \E i, j \in MappingAt :
       /\ i < j
       /\ \E id \in DOMAIN deps_data[i].deps \cap DOMAIN deps_data[j].deps :
            /\ deps_data[i].deps[id] # deps_data[j].deps[id]
            /\ current_deps[id] = deps_data[j].deps[id]

\* C24: a package record is flagged as a binary artifact exactly when its
\* directory was enumerated from the letter buckets under jll/; a package
\* of the regular letter buckets is never flagged, whatever its name and
\* the path of the repository contain.
C24_FlagIffJllBucket ==
  \A k \in DOMAIN snapshot.packages :
    snapshot.packages[k].is_jll <=> package_dirs[k].bucket = "jll"

(***************************************************************************)
(* Builds sharing a working tree (SpecConcurrent).                         *)
(***************************************************************************)
\* build b read a package directory while the tree was not at its commit
ReadElsewhere(b) ==
  \E i \in 1..Len(builds[b].read_at) : builds[b].read_at[i] # builds[b].commit

\* C25: when the builds are run strictly one after another, every package
\* directory a build walks is read from the tree checked out at that
\* build's commit; a build that read a directory at another ref (the other
\* build's commit or the restored branch) ran unserialised.
C25_SerialisedReadsOwnCommit ==
  \A b \in Builds : ReadElsewhere(b) => ~serialised

\* unserialised builds of two commits have exited, one of them having read
\* one directory at the other build's commit and one at the restored branch
C25_Witness ==
  /\ ~serialised
  /\ \A b \in Builds : builds[b].pc = "exited"
  /\ \E b, c \in Builds :
       /\ builds[b].commit # builds[c].commit
       /\ \E i \in 1..Len(builds[b].read_at) :
            builds[b].read_at[i] = builds[c].commit
       /\ \E i \in 1..Len(builds[b].read_at) :
            builds[b].read_at[i] = "main"

(***************************************************************************)
(* The classification of the months by a batch driver (SpecBatch).         *)
(***************************************************************************)
\* C26: the driver classifies the months of the index in ascending order,
\* each exactly once: at every point of the run the months classified as
\* completed, skipped or failed are exactly those before the one the loop
\* is at, no month is in two classes, and when the run ends every month of
\* the index is classified, so the three counts add up to the number of
\* months.
C26_EveryMonthClassifiedOnce ==
  /\ completed \cup skipped \cup failed = 1..(month_idx - 1)
  /\ completed \cap skipped = {}
  /\ completed \cap failed = {}
  /\ skipped \cap failed = {}
  /\ pc = "done" =>
       /\ month_idx = Len(files) + 1
       /\ Cardinality(completed) + Cardinality(skipped) + Cardinality(failed)
            = Len(files)

\* a run over three months has ended with one month in each class
C26_Witness ==
  /\ pc = "done" /\ Len(files) = 3
  /\ Cardinality(completed) = 1
  /\ Cardinality(skipped) = 1
  /\ Cardinality(failed) = 1

\* C27: at every point of the walk the three counters of format_stats add
\* up to the number of directories processed so far, the packages map and
\* the dependencies map have the same keys, and there are at most as many
\* package records as directories counted early or late.
C27_CountersAndMapsAgree ==
  /\ snapshot.format_stats["early"] + snapshot.format_stats["late"]
       + snapshot.format_stats["unknown"] = walked
  /\ DOMAIN snapshot.packages = DOMAIN snapshot.dependencies
  /\ Cardinality(DOMAIN snapshot.packages)
       <= snapshot.format_stats["early"] + snapshot.format_stats["late"]

\* a walk has processed a directory of unknown format and an early one
\* whose metadata did not parse: no record, one directory counted early
C27_Witness ==
  /\ pc = "walk" /\ walked = MaxDirs
  /\ snapshot.format_stats["unknown"] = 1
  /\ snapshot.format_stats["early"] = 1
  /\ DOMAIN snapshot.packages = {}

\* C28: for one dependency table and one target version, the ids returned
\* by the historical mode include every id that the loop of the default
\* mode gives when it is applied to that target, i.e. every id of a
\* mapping-valued entry whose range matches the target.
C28_HistoricalCoversDefault ==
  Historical =>
    DOMAIN MergeMatching(deps_data, target_version) \subseteq DOMAIN current_deps

\* a historical-mode result that holds the ids the default loop gives for
\* the target, which are not none, and one more
C28_Witness ==
  /\ Historical
  /\ DOMAIN MergeMatching(deps_data, target_version) # {}
  /\ DOMAIN current_deps \ DOMAIN MergeMatching(deps_data, target_version) # {}

=============================================================================
